---- MODULE Spec2Model ----
(***************************************************************************)
(* Verification model of the AI job displacement live counter server:      *)
(* the FRED refresh (fetchAllData / calculateAIDisplacement), the Counter  *)
(* (initialize / tick / getState) and the WebSocket broadcast layer.       *)
(*                                                                         *)
(* Numbers are exact rationals kept as integers over fixed denominators:   *)
(*   - exposure rates are percentages, so an aggregate aiX is kept as      *)
(*     aiX100 = 100 * aiX;                                                 *)
(*   - perSecond = aiMid / 30 / 86400 is kept as the numerator aiMid100    *)
(*     over PerSecondDen = 100 * 30 * 86400;                               *)
(*   - the wall clock advances in units of 259.2 s, so that                *)
(*     perSecond * elapsed = aiMid100 * units / 10^6;                      *)
(*   - jitter = 1 + (Math.random() - 0.5) * 0.2 with the draw              *)
(*     Math.random() = k / NumDraws is (9 * NumDraws + 2 * k) over         *)
(*     10 * NumDraws;                                                      *)
(*   - counter.fraction is a numerator over FracDen = 10^7 * NumDraws.     *)
(* liveData.fetchedAt, the average kept with each series and the text of   *)
(* the error messages are written but never read by the server's own       *)
(* logic; they are left out.                                               *)
(***************************************************************************)
EXTENDS Integers, Sequences, FiniteSets, TLC

\* ---------------------------------------------------------------------------
\* Bounds of the model
\* ---------------------------------------------------------------------------
MaxTime == 1          \* the wall clock runs over 0..MaxTime (units of 259.2 s)
MaxClients == 2       \* WebSocket connection slots
MaxInFlight == 2      \* fetchAllData calls that may be awaiting their requests
NumDraws == 2         \* Math.random() is drawn from { k / NumDraws : k < NumDraws }
MaxClock == 2         \* the page follows the time since an update up to MaxClock s
MaxOutages == 1       \* connection losses and server outages in a run
MaxFeedSteps == 1     \* the server's counter is followed FeedRate * MaxFeedSteps far
MaxRoster == 3        \* companies in a roster passed to calculateDisplacementScores
MaxAgeMonths == 40    \* launch dates reach back MaxAgeMonths * 30 days (MaturitySpec)
MaxZeroTicks == 2     \* zero-elapsed Counter.tick calls counted in TickSpec
MaxSkew == 12         \* a table entry is off its allocation by up to MaxSkew thousandths
MaxCalls == 3         \* DataStore calls in a run
DaysSinceStart == 1127 \* whole days from 2023-01-01 to the server's clock

\* ---------------------------------------------------------------------------
\* Configuration
\* ---------------------------------------------------------------------------
NULL == -1            \* null / undefined
NAN == -2             \* NaN: parseFloat('.') * 1000

FRED_SERIES ==
  <<"total", "information", "professional", "manufacturing", "finance", "retail">>

Series == { FRED_SERIES[i] : i \in 1..Len(FRED_SERIES) }

industries == <<"information", "professional", "finance", "manufacturing", "retail">>

\* exposure rates in percent
AI_EXPOSURE_MODEL ==
  [ information   |-> [low |-> 12, mid |-> 18, high |-> 25],
    professional  |-> [low |-> 8,  mid |-> 12, high |-> 18],
    finance       |-> [low |-> 10, mid |-> 15, high |-> 20],
    manufacturing |-> [low |-> 5,  mid |-> 8,  high |-> 12],
    retail        |-> [low |-> 4,  mid |-> 6,  high |-> 10],
    other         |-> [low |-> 3,  mid |-> 5,  high |-> 8] ]

PerSecondDen == 259200000   \* 100 * 30 * 86400
TicksPerUnit == 1000000     \* PerSecondDen * 100 / 25920 (a clock unit is 259.2 s)
FracDen == TicksPerUnit * 10 * NumDraws   \* one whole job in counter.fraction
RandDraws == 0..(NumDraws - 1)

\* ---------------------------------------------------------------------------
\* The upstream provider: the latest observation FRED serves for a series,
\* in layoffs (the API's thousands times 1000), and its observation date.
\* ---------------------------------------------------------------------------
Upstream ==
  [ total |-> 1000000, information |-> 50000, professional |-> 200000,
    manufacturing |-> 100000, finance |-> 50000, retail |-> 100000 ]

LatestDate == 20251201

Outcomes == {"ok", "missing", "error"}

\* the series whose requests may fail or miss on their own: the total, which
\* decides whether the rates are recomputed, and one category
Flaky == {"total", "information"}

\* the provider is healthy (every request succeeds) or down (every one fails)
HealthyOrDown ==
  { [k \in Series |-> "ok"], [k \in Series |-> "error"] }

\* the outcome vectors of one round of six requests: the flaky series settle
\* each in their own way while the others succeed, or the provider is down
RoundOutcomes ==
  { o \in [Series -> Outcomes] : \A k \in Series \ Flaky : o[k] = "ok" }
  \cup HealthyOrDown

VARIABLES
  fred,         \* liveData.fred[key]: [value, date, error]
  errors,       \* liveData.fred.errors (the keys that errored)
  calculated,   \* liveData.calculated
  counter,      \* the Counter instance: [value, fraction, lastTick, initialized]
  clients,      \* the Set of connections, in insertion order
  readyState,   \* per connection slot: "absent", "OPEN" or "CLOSED"
  pending,      \* fetchAllData calls awaiting Promise.all, in start order
  now,          \* the wall clock, Date.now()
  log,          \* per connection: summary of the messages sent on it
  missed,       \* per connection: a broadcast round passed it by while open
  roundOf,      \* per series: written by the most recently completed round
  calcSource,   \* the series values read by the recompute that set calculated
  tickedUp,     \* a tick's carry loop raised counter.value since the last refresh
  reply,        \* the response written by the HTTP handler that ran in this step
  zeroTicks,    \* Counter.tick calls made with zero elapsed time (TickSpec)
  \* the page (public/app.js)
  state,        \* the state object of app.js
  ws,           \* state.ws: "none", "CONNECTING", "OPEN" or "CLOSED"
  timers,       \* due times of the pending setTimeout(connect, 2000) calls
  clock,        \* the page's Date.now(), in seconds
  serverUp,     \* the server accepts connections
  outages,      \* connection losses and server outages so far
  feed,         \* counterDecimal of the newest message the server has sent
  received,     \* an update was handled on the current socket
  chains,       \* requestAnimationFrame(animate) callbacks pending
  \* the attribution engine
  roster,       \* the companies argument of calculateDisplacementScores
  totalDisplacement, \* its totalDisplacement argument
  result,       \* the call's outcome: [status, list], status "none" before
                \* the call, then "returned" or "threw"
  again,        \* the outcome of a second call with the same arguments
  allocations,  \* the allocation of each category of the table, in thousandths
  assertion,    \* the load-time console.assert on their sum: "pending",
                \* "passed" or "failed" (the warning was printed)
  \* the data store (src/data/store.js)
  store,        \* the DataStore instance: [initialized, useRedis, memory]
  cache,        \* config.redis.enabled, the Redis server (up or not) and the
                \* keys nowcast:counters, nowcast:state, nowcast:jolts it holds
  lastCall,     \* the last DataStore call: its name, argument, whether it
                \* rejected, what it returned and what the ping gave
  calls         \* DataStore calls made so far

serverVars == << fred, errors, calculated, counter, clients, readyState,
                 pending, now, log, missed, roundOf, calcSource, tickedUp,
                 reply >>

clientVars ==
  << state, ws, timers, clock, serverUp, outages, feed, received, chains >>

engineVars ==
  << roster, totalDisplacement, result, again, allocations, assertion >>

storeVars == << store, cache, lastCall, calls >>

vars == << serverVars, zeroTicks, clientVars, engineVars, storeVars >>

Conns == 1..MaxClients

\* ---------------------------------------------------------------------------
\* Arithmetic helpers
\* ---------------------------------------------------------------------------
\* Math.round of n / d for n >= 0
Round(n, d) == (2 * n + d) \div (2 * d)

\* Math.floor(a * b / c) without overflowing the intermediate product
FloorMulDiv(a, b, c) == a * (b \div c) + (a * (b % c)) \div c

\* JavaScript truthiness of a number-or-null: null, NaN and 0 are falsy
Truthy(v) == v # NULL /\ v # NAN /\ v # 0

\* ---------------------------------------------------------------------------
\* FRED fetcher
\* ---------------------------------------------------------------------------
\* fetchFredSeries never rejects: a failed request, a non-ok response or an
\* empty observation list is caught and returned as { error }.  The latest
\* observation is not filtered, so a missing one ('.') parses to NaN.
fetchFredSeries(key, outcome) ==
  CASE outcome = "error"   -> [error |-> TRUE,  latest |-> NULL, date |-> NULL]
    [] outcome = "missing" -> [error |-> FALSE, latest |-> NAN,  date |-> LatestDate]
    [] OTHER               -> [error |-> FALSE, latest |-> Upstream[key],
                               date |-> LatestDate]

\* the loop keeping the stored entry of a series whose request failed
StoreResultsKeepStale(old, results) ==
  [ key \in Series |->
      IF results[key].error
        THEN old[key]
        ELSE [value |-> results[key].latest, date |-> results[key].date,
              error |-> FALSE] ]

\* the loop giving the whole round up as soon as one request failed
StoreResultsFailFast(old, results) ==
  IF \E key \in Series : results[key].error
    THEN old
    ELSE [ key \in Series |->
             [value |-> results[key].latest, date |-> results[key].date,
              error |-> FALSE] ]

\* the loop of fetchAllData over the settled results
StoreResults(old, results) ==
  [ key \in Series |->
      IF results[key].error
        THEN [value |-> NULL, date |-> NULL, error |-> TRUE]
        ELSE [value |-> results[key].latest, date |-> results[key].date,
              error |-> FALSE] ]

\* ---------------------------------------------------------------------------
\* AI displacement calculation
\* ---------------------------------------------------------------------------
RECURSIVE KnownSum(_, _, _)
\* sum over industries[i..] with a truthy value of value * weight(industry)
KnownSum(fr, i, band) ==
  IF i > Len(industries) THEN 0
  ELSE LET industry == industries[i]
           data == fr[industry]
           w == IF band = "count" THEN 1 ELSE AI_EXPOSURE_MODEL[industry][band]
       IN (IF Truthy(data.value) THEN data.value * w ELSE 0)
          + KnownSum(fr, i + 1, band)

TotalMonthly(fr) == IF Truthy(fr["total"].value) THEN fr["total"].value ELSE 0

\* the residual without its floor at zero
OtherSectorsSigned(fr) == TotalMonthly(fr) - KnownSum(fr, 1, "count")

OtherSectors(fr) ==
  LET d == TotalMonthly(fr) - KnownSum(fr, 1, "count")
  IN IF d > 0 THEN d ELSE 0

\* the aggregates with the low band's residual taken at the high rate
Ai100ResidualAtHigh(fr, band) ==
  KnownSum(fr, 1, band)
    + OtherSectors(fr)
        * AI_EXPOSURE_MODEL["other"][IF band = "low" THEN "high" ELSE band]

\* 100 * aiLow / aiMid / aiHigh before rounding
Ai100(fr, band) ==
  KnownSum(fr, 1, band) + OtherSectors(fr) * AI_EXPOSURE_MODEL["other"][band]

\* the body of calculateAIDisplacement after its early return
Recompute(fr) ==
  LET totalMonthly == TotalMonthly(fr)
      aiLow100  == Ai100(fr, "low")
      aiMid100  == Ai100(fr, "mid")
      aiHigh100 == Ai100(fr, "high")
      daysSinceStart == DaysSinceStart
  IN [ totalMonthly   |-> totalMonthly,
       aiLow          |-> Round(aiLow100, 100),
       aiMid          |-> Round(aiMid100, 100),
       aiHigh         |-> Round(aiHigh100, 100),
       aiRateLow      |-> Round(aiLow100 * 10, totalMonthly),
       aiRateMid      |-> Round(aiMid100 * 10, totalMonthly),
       aiRateHigh     |-> Round(aiHigh100 * 10, totalMonthly),
       perDayLow      |-> Round(aiLow100, 3000),
       perDayMid      |-> Round(aiMid100, 3000),
       perDayHigh     |-> Round(aiHigh100, 3000),
       perSecond      |-> aiMid100,
       historicalLow  |-> FloorMulDiv(daysSinceStart, aiLow100, 3000),
       historicalMid  |-> FloorMulDiv(daysSinceStart, aiMid100, 3000),
       historicalHigh |-> FloorMulDiv(daysSinceStart, aiHigh100, 3000),
       daysSinceStart |-> daysSinceStart,
       startDate      |-> 20230101,
       historicalTotal |-> NULL,
       confidence     |-> "undefined" ]

\* the recompute publishing zero rates when there is no total
calculateAIDisplacementReset(fr, calc) ==
  IF TotalMonthly(fr) = 0
    THEN [calc EXCEPT !.totalMonthly = 0, !.aiLow = 0, !.aiMid = 0, !.aiHigh = 0,
                      !.perDayLow = 0, !.perDayMid = 0, !.perDayHigh = 0,
                      !.perSecond = 0]
    ELSE Recompute(fr)

\* calculateAIDisplacement: the new liveData.calculated
calculateAIDisplacement(fr, calc) ==
  IF TotalMonthly(fr) = 0 THEN calc ELSE Recompute(fr)

InitialCalculated ==
  [ totalMonthly |-> 0, aiLow |-> 0, aiMid |-> 0, aiHigh |-> 0,
    aiRateLow |-> NULL, aiRateMid |-> NULL, aiRateHigh |-> NULL,
    perDayLow |-> 0, perDayMid |-> 0, perDayHigh |-> 0, perSecond |-> 0,
    historicalLow |-> NULL, historicalMid |-> NULL, historicalHigh |-> NULL,
    daysSinceStart |-> NULL, startDate |-> NULL,
    historicalTotal |-> 0, confidence |-> "medium" ]

\* ---------------------------------------------------------------------------
\* Live counter
\* ---------------------------------------------------------------------------
\* Counter.initialize
CounterInitialize(c, calc) ==
  IF calc.historicalMid > 0
    THEN [c EXCEPT !.value = calc.historicalMid, !.initialized = TRUE]
    ELSE c

\* a jitter of 1 + (Math.random() - 0.5) * 0.4
JitterWide(k) == 8 * NumDraws + 4 * k

\* numerator of 1 + (Math.random() - 0.5) * 0.2 over 10 * NumDraws
Jitter(k) == 9 * NumDraws + 2 * k

\* the carry written as a single `if`
CarryOnce(value, fraction) ==
  IF fraction >= FracDen
    THEN [value |-> value + 1, fraction |-> fraction - FracDen]
    ELSE [value |-> value, fraction |-> fraction]

RECURSIVE Carry(_, _)
\* while (fraction >= 1) { value++; fraction-- }
Carry(value, fraction) ==
  IF fraction >= FracDen THEN Carry(value + 1, fraction - FracDen)
  ELSE [value |-> value, fraction |-> fraction]

\* the tick charging one clock unit more than has elapsed
CounterTickExtraUnit(c, calc, t, r4) ==
  LET c1 == IF ~c.initialized /\ calc.historicalMid > 0
              THEN CounterInitialize(c, calc) ELSE c
      elapsed == t - c1.lastTick + 1
      rate == IF Truthy(calc.perSecond) THEN calc.perSecond ELSE 0
      moved == Carry(c1.value, c1.fraction + rate * elapsed * Jitter(r4))
  IN IF rate > 0
       THEN [c1 EXCEPT !.lastTick = t, !.value = moved.value,
                       !.fraction = moved.fraction]
       ELSE [c1 EXCEPT !.lastTick = t]

\* the tick with lastTick stamped before the elapsed time is taken
CounterTickStampFirst(c, calc, t, r4) ==
  IF ~c.initialized /\ calc.historicalMid > 0
    THEN [CounterInitialize(c, calc) EXCEPT !.lastTick = t]
    ELSE [c EXCEPT !.lastTick = t]

\* Counter.tick up to its return: the counter after the tick at clock t
CounterTick(c, calc, t, r4) ==
  LET c1 == IF ~c.initialized /\ calc.historicalMid > 0
              THEN CounterInitialize(c, calc) ELSE c
      elapsed == t - c1.lastTick
      rate == IF Truthy(calc.perSecond) THEN calc.perSecond ELSE 0
      moved == Carry(c1.value, c1.fraction + rate * elapsed * Jitter(r4))
  IN IF rate > 0
       THEN [c1 EXCEPT !.lastTick = t, !.value = moved.value,
                       !.fraction = moved.fraction]
       ELSE [c1 EXCEPT !.lastTick = t]

\* Counter.getState (updatedAt is the clock)
getState(c, calc, fr, t) ==
  [ counter        |-> c.value,
    counterDecimal |-> [whole |-> c.value, frac |-> c.fraction],
    counterLow     |-> calc.historicalLow,
    counterHigh    |-> calc.historicalHigh,
    perSecond      |-> calc.perSecond,
    perDay         |-> calc.perDayMid,
    perDayLow      |-> calc.perDayLow,
    perDayHigh     |-> calc.perDayHigh,
    dataPeriod     |-> fr["total"].date,
    totalMonthlyLayoffs |-> calc.totalMonthly,
    aiRateRange    |-> <<calc.aiRateLow, calc.aiRateHigh>>,
    startDate      |-> calc.startDate,
    updatedAt      |-> t ]

\* no HTTP response was written in this step
NoReply == [route |-> "none", body |-> [status |-> "none"]]

\* a health body flagging the data only when every series errored
healthBodyUnlessAllFailed(c, cl, errs) ==
  [ status |-> "ok",
    counter |-> c.value,
    clients |-> Len(cl),
    dataStatus |-> IF Len(errs) < Len(FRED_SERIES) THEN "ok" ELSE "partial" ]

\* the body of GET /api/health
healthBody(c, cl, errs) ==
  [ status |-> "ok",
    counter |-> c.value,
    clients |-> Len(cl),
    dataStatus |-> IF Len(errs) = 0 THEN "ok" ELSE "partial" ]

\* the body of GET /api/data/raw (model is the constant AI_EXPOSURE_MODEL)
rawBody(fr, errs, calc) ==
  [ fred |-> fr, errors |-> errs, calculated |-> calc ]

\* ---------------------------------------------------------------------------
\* WebSocket layer
\* ---------------------------------------------------------------------------
\* nothing sent yet on a connection
EmptyLog ==
  [inits |-> 0, firstInit |-> TRUE, ordered |-> TRUE, lastType |-> "none",
   lastCounter |-> NULL, past |-> {}]

\* ws.send(JSON.stringify(m)) as seen on the connection's message log: the
\* number of init messages (counted up to 2), whether the first message was
\* the init, whether the counters sent so far were in non-decreasing order,
\* and the type and counter of the last message; past is filled in by the
\* broadcast round with the entries of the set it had gone past without sending
Send(l, m) ==
  [ inits     |-> IF m.type = "init" /\ l.inits < 2 THEN l.inits + 1 ELSE l.inits,
    firstInit |-> IF l.lastType = "none" THEN m.type = "init" ELSE l.firstInit,
    ordered   |-> l.ordered /\ (l.lastType = "none"
                                \/ m.data.counter >= l.lastCounter),
    lastType    |-> m.type,
    lastCounter |-> m.data.counter,
    past        |-> {} ]

InSet(cl, c) == \E i \in 1..Len(cl) : cl[i] = c

\* a handler that leaves the set as it is
SetDeleteKeeps(cl, c) == cl

\* clients.delete(ws)
SetDelete(cl, c) == SelectSeq(cl, LAMBDA x : x # c)

\* Slots only name connections: the live connections hold the lowest slots in
\* the order the set keeps them, and when connection c is deleted the ones
\* after it move down one slot. Moved is the new name of slot d.
Moved(d, c) == IF d > c THEN d - 1 ELSE d

\* a per-slot table after connection c is deleted
Forget(f, c, empty) ==
  [d \in Conns |-> IF d < c THEN f[d]
                   ELSE IF d < MaxClients THEN f[d + 1] ELSE empty]

\* clients.add(ws)
SetAdd(cl, c) == IF InSet(cl, c) THEN cl ELSE Append(cl, c)

\* the loop ending at the first connection that is not open
BroadcastAbort(cl, rs) ==
  { cl[i] : i \in { j \in 1..Len(cl) : \A h \in 1..j : rs[cl[h]] = "OPEN" } }

\* clients.forEach(ws => ws.readyState === 1 && ws.send(msg)): who is sent msg
Broadcast(cl, rs) == { cl[i] : i \in { j \in 1..Len(cl) : rs[cl[j]] = "OPEN" } }

\* ---------------------------------------------------------------------------
\* Initial state: the module has loaded, initialize() is awaiting its first
\* fetchAllData, both timers are armed, no viewer has connected.
\* ---------------------------------------------------------------------------
ServerInit ==
  /\ fred = [k \in Series |-> [value |-> NULL, date |-> NULL, error |-> FALSE]]
  /\ errors = << >>
  /\ calculated = InitialCalculated
  /\ counter = [value |-> 0, fraction |-> 0, lastTick |-> 0, initialized |-> FALSE]
  /\ clients = << >>
  /\ readyState = [c \in Conns |-> "absent"]
  /\ pending = << "startup" >>
  /\ now = 0
  /\ log = [c \in Conns |-> EmptyLog]
  /\ missed = [c \in Conns |-> FALSE]
  /\ roundOf = [k \in Series |-> FALSE]
  /\ calcSource = [k \in Series |-> NULL]
  /\ tickedUp = FALSE
  /\ reply = NoReply

\* app.js has been loaded and has not yet called connect()
PageInit ==
  /\ state = [connected |-> FALSE, counter |-> 0, counterDecimal |-> 0,
              targetCounter |-> 0, perSecond |-> 0, lastTick |-> 0,
              animating |-> FALSE, companiesRendered |-> FALSE]
  /\ ws = "none"
  /\ timers = << >>
  /\ clock = 0
  /\ serverUp = TRUE
  /\ outages = 0
  /\ feed = 0
  /\ received = FALSE
  /\ chains = 0

NotCalled == [status |-> "none", list |-> << >>]

\* the engine module has loaded with its own table, and the assertion on the
\* table's sum has passed
TableLoaded ==
  /\ allocations = [k \in {"foundation_models", "coding", "customer_service",
                            "administrative", "autonomous", "creative",
                            "sales_marketing", "analytics", "healthcare"} |->
                      CASE k = "foundation_models" -> 220
                        [] k = "coding" -> 200
                        [] k = "customer_service" -> 180
                        [] k = "administrative" -> 120
                        [] k = "autonomous" -> 100
                        [] k = "creative" -> 80
                        [] k = "sales_marketing" -> 60
                        [] k = "analytics" -> 30
                        [] k = "healthcare" -> 10]
  /\ assertion = "passed"

\* calculateDisplacementScores has not been called
EngineIdle ==
  /\ roster = << >>
  /\ totalDisplacement = 0
  /\ result = NotCalled
  /\ again = NotCalled
  /\ TableLoaded

\* new DataStore(): nothing called yet
StoreConstructed ==
  [ initialized |-> FALSE,
    useRedis |-> FALSE,
    memory |-> [ events |-> << >>,
                 counters |-> [total |-> 0, ai |-> 0],
                 state |-> "{}",
                 joltsAnchor |-> "null" ] ]

NoCall == [op |-> "none", rejected |-> FALSE, returned |-> "undefined",
           ping |-> "none", arg |-> "none"]

\* the data store has been constructed; REDIS_URL is not set
StoreIdle ==
  /\ store = StoreConstructed
  /\ cache = [enabled |-> FALSE, up |-> FALSE, counters |-> << >>,
              state |-> << >>, jolts |-> << >>]
  /\ lastCall = NoCall
  /\ calls = 0

Init == ServerInit /\ zeroTicks = 0 /\ PageInit /\ EngineIdle /\ StoreIdle

\* ---------------------------------------------------------------------------
\* Actions
\* ---------------------------------------------------------------------------
\* the wall clock advances
TimePasses ==
  /\ now < MaxTime
  /\ now' = now + 1
  /\ UNCHANGED << fred, errors, calculated, counter, clients,
                  readyState, pending, log, missed, roundOf, calcSource,
                  tickedUp >>
  /\ UNCHANGED << zeroTicks, clientVars, engineVars, storeVars >>
  /\ reply' = NoReply

\* setInterval(fetchAllData, 6h) fires: six requests go out
RefreshTimer ==
  /\ Len(pending) < MaxInFlight
  /\ pending' = Append(pending, "timer")
  /\ UNCHANGED << fred, errors, calculated, counter, clients,
                  readyState, now, log, missed, roundOf, calcSource,
                  tickedUp >>
  /\ UNCHANGED << zeroTicks, clientVars, engineVars, storeVars >>
  /\ reply' = NoReply

\* All six requests of the i-th pending fetchAllData have settled: the rest of
\* fetchAllData runs to completion, and for the start-up call the continuation
\* of initialize() (counter.initialize()) follows in the same turn.
FetchSettles(i, o) ==
  \E results \in { [k \in Series |-> fetchFredSeries(k, o[k])] } :
  \E fr \in { StoreResults(fred, results) } :
  \E calc \in { calculateAIDisplacement(fr, calculated) } :
     /\ fred' = fr
     /\ errors' = SelectSeq(FRED_SERIES, LAMBDA k : results[k].error)
     /\ calculated' = calc
     /\ counter' = IF pending[i] = "startup"
                     THEN CounterInitialize(counter, calc) ELSE counter
     /\ pending' = SubSeq(pending, 1, i - 1) \o SubSeq(pending, i + 1, Len(pending))
     /\ roundOf' = [k \in Series |-> /\ fr[k].value = results[k].latest
                                     /\ fr[k].date = results[k].date]
     /\ calcSource' = IF TotalMonthly(fr) = 0 THEN calcSource
                      ELSE [k \in Series |-> fr[k].value]
     /\ tickedUp' = FALSE
     /\ UNCHANGED << clients, readyState, now, log, missed >>
     /\ UNCHANGED << zeroTicks, clientVars, engineVars, storeVars >>
     /\ reply' = NoReply

\* the 100 ms interval fires: counter.tick(), then the broadcast
Tick(r4) ==
  LET seeded == IF ~counter.initialized /\ calculated.historicalMid > 0
                  THEN calculated.historicalMid ELSE counter.value
      c2 == CounterTick(counter, calculated, now, r4)
      msg == [type |-> "tick", data |-> getState(c2, calculated, fred, now)]
      to == Broadcast(clients, readyState)
      open == { c \in Conns : InSet(clients, c) /\ readyState[c] = "OPEN" }
  IN /\ counter' = c2
     /\ log' = [c \in Conns |->
                  IF c \in to
                    THEN [Send(log[c], msg) EXCEPT !.past =
                            { clients[i] : i \in { h \in 1..Len(clients) :
                                /\ readyState[clients[h]] # "OPEN"
                                /\ \E j \in (h + 1)..Len(clients) :
                                     clients[j] = c } } ]
                    ELSE log[c]]
     /\ missed' = [c \in Conns |-> missed[c] \/ (c \in open /\ c \notin to)]
     /\ tickedUp' = (tickedUp \/ c2.value > seeded)
     /\ UNCHANGED << fred, errors, calculated, clients, readyState,
                     pending, now, roundOf, calcSource >>
     /\ UNCHANGED << zeroTicks, clientVars, engineVars, storeVars >>
     /\ reply' = NoReply

\* the connection handler building its init message with counter.tick()
ConnectTicks(c) ==
  /\ readyState[c] = "absent"
  /\ \A d \in 1..(c - 1) : readyState[d] # "absent"
  /\ readyState' = [readyState EXCEPT ![c] = "OPEN"]
  /\ clients' = SetAdd(clients, c)
  /\ \E r4 \in RandDraws :
       /\ counter' = CounterTick(counter, calculated, now, r4)
       /\ log' = [log EXCEPT ![c] =
                    Send(EmptyLog, [type |-> "init",
                                    data |-> getState(counter', calculated, fred, now)])]
  /\ missed' = [missed EXCEPT ![c] = FALSE]
  /\ UNCHANGED << fred, errors, calculated, pending, now,
                  roundOf, calcSource, tickedUp >>
  /\ UNCHANGED << zeroTicks, clientVars, engineVars, storeVars >>
  /\ reply' = NoReply

\* wss.on('connection'): add to the set, send the init message
Connect(c) ==
  /\ readyState[c] = "absent"
  /\ \A d \in 1..(c - 1) : readyState[d] # "absent"
  /\ readyState' = [readyState EXCEPT ![c] = "OPEN"]
  /\ clients' = SetAdd(clients, c)
  /\ log' = [log EXCEPT ![c] =
               Send(EmptyLog, [type |-> "init",
                               data |-> getState(counter, calculated, fred, now)])]
  /\ missed' = [missed EXCEPT ![c] = FALSE]
  /\ UNCHANGED << fred, errors, calculated, counter, pending, now,
                  roundOf, calcSource, tickedUp >>
  /\ UNCHANGED << zeroTicks, clientVars, engineVars, storeVars >>
  /\ reply' = NoReply

\* the peer goes away or the socket fails: readyState leaves OPEN before the
\* server's handlers have run; nothing is sent on the socket from here on, so
\* its message log is complete and is put away
SocketBreaks(c) ==
  /\ readyState[c] = "OPEN"
  /\ readyState' = [readyState EXCEPT ![c] = "CLOSED"]
  /\ log' = [log EXCEPT ![c] = EmptyLog]
  /\ UNCHANGED << fred, errors, calculated, counter, clients,
                  pending, now, missed, roundOf, calcSource, tickedUp >>
  /\ UNCHANGED << zeroTicks, clientVars, engineVars, storeVars >>
  /\ reply' = NoReply

\* ws.on('error', () => clients.delete(ws)); the close event that follows
\* an error finds the socket already deleted, so the socket is gone here
OnError(c) ==
  /\ readyState[c] = "CLOSED"
  /\ InSet(clients, c)
  /\ clients' = [i \in 1..Len(SetDelete(clients, c)) |->
                   Moved(SetDelete(clients, c)[i], c)]
  /\ readyState' = Forget(readyState, c, "absent")
  /\ log' = Forget([d \in Conns |->
                     [log[d] EXCEPT !.past = { Moved(x, c) : x \in @ \ {c} }]],
                  c, EmptyLog)
  /\ missed' = Forget(missed, c, FALSE)
  /\ UNCHANGED << fred, errors, calculated, counter, pending, now,
                  roundOf, calcSource, tickedUp >>
  /\ UNCHANGED << zeroTicks, clientVars, engineVars, storeVars >>
  /\ reply' = NoReply

\* ws.on('close', () => clients.delete(ws)); the socket object is then gone
OnClose(c) ==
  /\ readyState[c] = "CLOSED"
  /\ clients' = [i \in 1..Len(SetDelete(clients, c)) |->
                   Moved(SetDelete(clients, c)[i], c)]
  /\ readyState' = Forget(readyState, c, "absent")
  /\ log' = Forget([d \in Conns |->
                     [log[d] EXCEPT !.past = { Moved(x, c) : x \in @ \ {c} }]],
                  c, EmptyLog)
  /\ missed' = Forget(missed, c, FALSE)
  /\ UNCHANGED << fred, errors, calculated, counter, pending, now,
                  roundOf, calcSource, tickedUp >>
  /\ UNCHANGED << zeroTicks, clientVars, engineVars, storeVars >>
  /\ reply' = NoReply

\* GET /api/metrics/current answered with counter.tick() instead of
\* counter.getState()
GetMetricsTicks ==
  /\ \E r4 \in RandDraws :
       \E c2 \in { CounterTick(counter, calculated, now, r4) } :
         /\ counter' = c2
         /\ reply' = [route |-> "metrics",
                      body |-> getState(c2, calculated, fred, now)]
  /\ UNCHANGED << fred, errors, calculated, clients, readyState, pending,
                  now, log, missed, roundOf, calcSource, tickedUp >>
  /\ UNCHANGED << zeroTicks, clientVars, engineVars, storeVars >>

\* app.get('/api/metrics/current'): res.json(counter.getState())
GetMetrics ==
  /\ reply' = [route |-> "metrics",
               body |-> getState(counter, calculated, fred, now)]
  /\ UNCHANGED << fred, errors, calculated, counter, clients, readyState,
                  pending, now, log, missed, roundOf, calcSource, tickedUp >>
  /\ UNCHANGED << zeroTicks, clientVars, engineVars, storeVars >>

\* app.get('/api/data/raw')
GetRaw ==
  /\ reply' = [route |-> "raw", body |-> rawBody(fred, errors, calculated)]
  /\ UNCHANGED << fred, errors, calculated, counter, clients, readyState,
                  pending, now, log, missed, roundOf, calcSource, tickedUp >>
  /\ UNCHANGED << zeroTicks, clientVars, engineVars, storeVars >>

\* app.get('/api/health')
GetHealth ==
  /\ reply' = [route |-> "health", body |-> healthBody(counter, clients, errors)]
  /\ UNCHANGED << fred, errors, calculated, counter, clients, readyState,
                  pending, now, log, missed, roundOf, calcSource, tickedUp >>
  /\ UNCHANGED << zeroTicks, clientVars, engineVars, storeVars >>

Refresh(outcomes) == \E i \in 1..Len(pending), o \in outcomes :
                       FetchSettles(i, o)

TickTimer == \E r4 \in RandDraws : Tick(r4)

Connection == \E c \in Conns : Connect(c)

Disconnect == \E c \in Conns : SocketBreaks(c)

ErrorEvent == \E c \in Conns : OnError(c)

CloseEvent == \E c \in Conns : OnClose(c)

\* The server with no viewer connected, against a provider whose flaky series
\* fail on their own.
Next ==
  \/ TimePasses
  \/ RefreshTimer
  \/ Refresh(RoundOutcomes)
  \/ TickTimer

Spec == Init /\ [][Next]_vars

\* The server with viewers, against a provider that is healthy or down.
NextWS ==
  \/ TimePasses
  \/ RefreshTimer
  \/ Refresh(HealthyOrDown)
  \/ TickTimer
  \/ Connection
  \/ Disconnect
  \/ ErrorEvent
  \/ CloseEvent

SpecWS == Init /\ [][NextWS]_vars

\* The server with viewers and with HTTP clients putting their queries.
NextQuery ==
  \/ TimePasses
  \/ RefreshTimer
  \/ Refresh(HealthyOrDown)
  \/ TickTimer
  \/ Connection
  \/ Disconnect
  \/ ErrorEvent
  \/ CloseEvent
  \/ GetMetrics
  \/ GetRaw
  \/ GetHealth

QuerySpec == Init /\ [][NextQuery]_vars

\* The viewer-free server under a fair clock and a fair tick timer.
LiveSpec == Spec /\ WF_vars(TimePasses) /\ WF_vars(TickTimer)

\* ---------------------------------------------------------------------------
\* Counter.tick on its own (TickSpec): the counter and the rates are drawn from
\* what the server can hold, the clock stands at counter.lastTick, and the only
\* step is a tick, which therefore sees zero elapsed time.
\* ---------------------------------------------------------------------------
\* liveData.fred and liveData.calculated after a first refresh with outcomes o
TickRound(o) ==
  LET fr == StoreResults([k \in Series |->
                            [value |-> NULL, date |-> NULL, error |-> FALSE]],
                         [k \in Series |-> fetchFredSeries(k, o[k])])
  IN [fred |-> fr, calculated |-> calculateAIDisplacement(fr, InitialCalculated)]

\* the counters the server can hold next to these rates: not yet seeded, or
\* seeded and advanced by some ticks
TickCounters(calc) ==
  { [value |-> 0, fraction |-> 0, lastTick |-> t, initialized |-> FALSE] :
      t \in 0..MaxTime }
  \cup IF calc.historicalMid > 0
         THEN { [value |-> calc.historicalMid + v, fraction |-> f,
                 lastTick |-> t, initialized |-> TRUE] :
                  v \in 0..MaxZeroTicks,
                  f \in {0, FracDen \div 2, FracDen - 1},
                  t \in 0..MaxTime }
         ELSE {}

TickInit ==
  /\ \E o \in RoundOutcomes :
       /\ fred = TickRound(o).fred
       /\ calculated = TickRound(o).calculated
       /\ errors = SelectSeq(FRED_SERIES, LAMBDA k : fred[k].error)
       /\ roundOf = [k \in Series |-> TRUE]
       /\ calcSource = IF TotalMonthly(fred) = 0 THEN [k \in Series |-> NULL]
                       ELSE [k \in Series |-> fred[k].value]
  /\ counter \in TickCounters(calculated)
  /\ now = counter.lastTick
  /\ clients = << >>
  /\ readyState = [c \in Conns |-> "absent"]
  /\ pending = << >>
  /\ log = [c \in Conns |-> EmptyLog]
  /\ missed = [c \in Conns |-> FALSE]
  /\ tickedUp = FALSE
  /\ reply = NoReply
  /\ zeroTicks = 0
  /\ PageInit
  /\ EngineIdle
  /\ StoreIdle

\* counter.tick() called while Date.now() equals counter.lastTick
ZeroTick(r4) ==
  /\ now = counter.lastTick
  /\ zeroTicks < MaxZeroTicks
  /\ counter' = CounterTick(counter, calculated, now, r4)
  /\ zeroTicks' = zeroTicks + 1
  /\ UNCHANGED << fred, errors, calculated, clients, readyState, pending, now,
                  log, missed, roundOf, calcSource, tickedUp >>
  /\ UNCHANGED << clientVars, engineVars, storeVars >>
  /\ reply' = NoReply

ZeroTicks == \E r4 \in RandDraws : ZeroTick(r4)

TickNext == ZeroTicks

TickSpec == TickInit /\ [][TickNext]_vars

\* ---------------------------------------------------------------------------
\* The page (public/app.js). Counter values are kept in hundredths of a job
\* (the display shows two decimals), the page's clock in seconds; the server
\* is seen through the messages it sends: counterDecimal never decreases from
\* one message to the next.
\* ---------------------------------------------------------------------------
Unit == 100           \* hundredths per job
TimerDelay == 2       \* setTimeout(connect, 2000), in seconds
FeedRate == 30        \* data.perSecond of a seeded server, hundredths per second
FeedBase == 5 * Unit  \* counterDecimal of a server that has just been seeded

\* how far counterDecimal moves between two messages: one 100 ms tick or a
\* second of ticks, and not at all for the init message of a new connection
FeedSteps(init) == {FeedRate \div 10, FeedRate} \cup (IF init THEN {0} ELSE {})

\* the server's counterDecimal in the next message, given the last one
NextFeeds(f, init) ==
  IF f = 0 THEN {0, FeedBase}
  ELSE { f + d : d \in { x \in FeedSteps(init) :
                           f + x <= FeedBase + MaxFeedSteps * FeedRate } }

\* msg.data as the server's getState builds it
FeedData(f) ==
  [counter |-> f \div Unit, counterDecimal |-> f,
   perSecond |-> IF f > 0 THEN FeedRate ELSE 0]

\* handleData(data) at page time t
handleData(st, data, t) ==
  LET dec == IF data.counterDecimal # 0 THEN data.counterDecimal
             ELSE data.counter * Unit
      st1 == [st EXCEPT !.targetCounter = dec,
                        !.perSecond = IF Truthy(data.perSecond)
                                        THEN data.perSecond ELSE 0,
                        !.lastTick = t]
  IN IF st.counter = 0 /\ data.counter > 0
       THEN [st1 EXCEPT !.counter = data.counter, !.counterDecimal = dec,
                        !.companiesRendered = TRUE]
       ELSE st1

\* diff * 0.12, rounded away from zero to the next hundredth
Smooth(diff) ==
  IF diff >= 0 THEN (diff * 12 + 99) \div 100
  ELSE 0 - ((0 - diff) * 12 + 99) \div 100

\* an animate() that ends the loop once the socket has closed
animateStopsOffline(st, t) ==
  IF st.connected THEN [st EXCEPT !.counterDecimal = st.targetCounter]
  ELSE [st EXCEPT !.animating = FALSE]

\* one run of animate() with updateDisplay() at page time t; elapsed > 0.2
\* is elapsed >= 1 on a clock of whole seconds
animate(st, t) ==
  LET elapsed == t - st.lastTick
      diff == st.targetCounter - st.counterDecimal
      smoothed == IF diff # 0 THEN st.counterDecimal + Smooth(diff)
                  ELSE st.counterDecimal
      extrapolated == st.targetCounter + (st.perSecond * elapsed) \div 2
      shown == IF elapsed >= 1 /\ st.perSecond > 0 /\ extrapolated > smoothed
                 THEN extrapolated ELSE smoothed
      integer == shown \div Unit
  IN IF ~st.animating THEN st
     ELSE [st EXCEPT !.counterDecimal = shown,
                     !.counter = IF integer > st.counter THEN integer
                                 ELSE st.counter]

\* DOMContentLoaded: connect()
Load ==
  /\ ws = "none"
  /\ ws' = "CONNECTING"
  /\ UNCHANGED << state, timers, clock, serverUp, outages, feed, received, chains >>
  /\ UNCHANGED << serverVars, zeroTicks, engineVars, storeVars >>

\* a setTimeout(connect, 2000) comes due: connect()
TimerFires ==
  /\ timers # << >>
  /\ Head(timers) <= clock
  /\ timers' = Tail(timers)
  /\ ws' = "CONNECTING"
  /\ UNCHANGED << state, clock, serverUp, outages, feed, received, chains >>
  /\ UNCHANGED << serverVars, zeroTicks, engineVars, storeVars >>

\* an onopen handler calling animate() on every open
OnOpenAlwaysAnimates ==
  /\ ws = "CONNECTING"
  /\ serverUp
  /\ ws' = "OPEN"
  /\ state' = animate([state EXCEPT !.connected = TRUE,
                                    !.animating = TRUE], clock)
  /\ chains' = chains + 1
  /\ UNCHANGED << timers, clock, serverUp, outages, feed, received >>
  /\ UNCHANGED << serverVars, zeroTicks, engineVars, storeVars >>

\* ws.onopen
OnOpen ==
  /\ ws = "CONNECTING"
  /\ serverUp
  /\ ws' = "OPEN"
  /\ state' = IF state.animating THEN [state EXCEPT !.connected = TRUE]
              ELSE animate([state EXCEPT !.connected = TRUE,
                                         !.animating = TRUE], clock)
  /\ chains' = IF state.animating THEN chains ELSE chains + 1
  /\ UNCHANGED << timers, clock, serverUp, outages, feed, received >>
  /\ UNCHANGED << serverVars, zeroTicks, engineVars, storeVars >>

\* ws.onmessage with an init or tick message
OnMessage(f) ==
  /\ ws = "OPEN"
  /\ serverUp
  /\ feed' = f
  /\ state' = handleData(state, FeedData(f), clock)
  /\ received' = TRUE
  /\ UNCHANGED << ws, timers, clock, serverUp, outages, chains >>
  /\ UNCHANGED << serverVars, zeroTicks, engineVars, storeVars >>

\* ws.onclose scheduling two attempts
WsOnCloseTwice(lost) ==
  /\ ws \in {"CONNECTING", "OPEN"}
  /\ \/ ~serverUp /\ ~lost /\ outages' = outages
     \/ lost /\ outages < MaxOutages /\ outages' = outages + 1
  /\ ws' = "CLOSED"
  /\ state' = [state EXCEPT !.connected = FALSE]
  /\ timers' = timers \o << clock + TimerDelay, clock + TimerDelay >>
  /\ received' = FALSE
  /\ UNCHANGED << clock, serverUp, feed, chains >>
  /\ UNCHANGED << serverVars, zeroTicks, engineVars, storeVars >>

\* ws.onclose: the attempt failed (the server is down), or the connection
\* was lost
WsOnClose(lost) ==
  /\ ws \in {"CONNECTING", "OPEN"}
  /\ \/ ~serverUp /\ ~lost /\ outages' = outages
     \/ lost /\ outages < MaxOutages /\ outages' = outages + 1
  /\ ws' = "CLOSED"
  /\ state' = [state EXCEPT !.connected = FALSE]
  /\ timers' = Append(timers, clock + TimerDelay)
  /\ received' = FALSE
  /\ UNCHANGED << clock, serverUp, feed, chains >>
  /\ UNCHANGED << serverVars, zeroTicks, engineVars, storeVars >>

\* requestAnimationFrame(animate) calls back
Frame ==
  /\ state.animating
  /\ state' = animate(state, clock)
  /\ UNCHANGED << ws, timers, clock, serverUp, outages, feed, received, chains >>
  /\ UNCHANGED << serverVars, zeroTicks, engineVars, storeVars >>

\* a second passes on the page; past MaxClock the origin of time moves along
\* (the page only ever takes differences of times)
ClockTick ==
  /\ IF clock < MaxClock
       THEN /\ clock' = clock + 1
            /\ UNCHANGED << state, timers >>
       ELSE /\ clock' = clock
            /\ state' = [state EXCEPT !.lastTick =
                            IF state.lastTick > 0 THEN state.lastTick - 1 ELSE 0]
            /\ timers' = [i \in 1..Len(timers) |->
                            IF timers[i] > 0 THEN timers[i] - 1 ELSE 0]
  /\ UNCHANGED << ws, serverUp, outages, feed, received, chains >>
  /\ UNCHANGED << serverVars, zeroTicks, engineVars, storeVars >>

\* the server stops accepting connections
ServerDown ==
  /\ serverUp
  /\ outages < MaxOutages
  /\ serverUp' = FALSE
  /\ outages' = outages + 1
  /\ UNCHANGED << state, ws, timers, clock, feed, received, chains >>
  /\ UNCHANGED << serverVars, zeroTicks, engineVars, storeVars >>

\* the server is reachable again
ServerBack ==
  /\ ~serverUp
  /\ serverUp' = TRUE
  /\ UNCHANGED << state, ws, timers, clock, outages, feed, received, chains >>
  /\ UNCHANGED << serverVars, zeroTicks, engineVars, storeVars >>

Message == \E f \in NextFeeds(feed, ~received) : OnMessage(f)

Close == \E lost \in BOOLEAN : WsOnClose(lost)

PageNext ==
  \/ Load
  \/ TimerFires
  \/ OnOpen
  \/ Message
  \/ Close
  \/ Frame
  \/ ClockTick
  \/ ServerDown
  \/ ServerBack

PageStart == ServerInit /\ zeroTicks = 0 /\ PageInit /\ EngineIdle /\ StoreIdle

PageSpec == PageStart /\ [][PageNext]_vars

\* the page with a running clock, timers that fire, a network that delivers
\* and a server that comes back
LivePageSpec ==
  /\ PageSpec
  /\ WF_vars(ClockTick)
  /\ WF_vars(TimerFires)
  /\ WF_vars(OnOpen)
  /\ WF_vars(Message)
  /\ WF_vars(WsOnClose(FALSE))
  /\ WF_vars(ServerBack)

\* ---------------------------------------------------------------------------
\* The attribution engine. Dates are days since 2000-01-01 (every date of the
\* file is a UTC midnight). Factors are exact fractions kept as numerators:
\* allocations in hundredths, maturity in 240ths, the type and enterprise
\* multipliers in twentieths, the operational factor in tenths.
\* ---------------------------------------------------------------------------
AI_ERA_START == 8369          \* new Date('2022-11-30')
CURRENT_DATE == 9528          \* new Date('2026-02-01')
MONTHS_SINCE_AI_ERA == (CURRENT_DATE - AI_ERA_START) \div 30

DISPLACEMENT_CATEGORIES ==
  [ foundation_models |-> 22, coding |-> 20, customer_service |-> 18,
    administrative |-> 12, autonomous |-> 10, creative |-> 8,
    sales_marketing |-> 6, analytics |-> 3, healthcare |-> 1 ]

CategoryKeys == DOMAIN DISPLACEMENT_CATEGORIES

\* keys every object literal inherits from Object.prototype: a lookup with one
\* of them yields a function, not undefined
InheritedKeys == {"constructor", "toString", "valueOf", "hasOwnProperty"}

\* DISPLACEMENT_TYPE_MULT[t] || 0.5, in twentieths
DisplacementTypeMult(t) ==
  CASE t = "direct" -> 20
    [] t = "augmentation" -> 8
    [] t = "infrastructure" -> 5
    [] OTHER -> 10

\* a tier table with the consumer and enterprise multipliers swapped
EnterpriseMultConsumerFirst(l) ==
  CASE l = "enterprise" -> 3
    [] l = "prosumer" -> 12
    [] l = "consumer" -> 20
    [] OTHER -> 12

\* ENTERPRISE_MULT[l] || 0.6, in twentieths
EnterpriseMult(l) ==
  CASE l = "enterprise" -> 20
    [] l = "prosumer" -> 12
    [] l = "consumer" -> 3
    [] OTHER -> 12

\* company.operationalStatus || 1.0, in tenths
OperationalFactor(o) == IF Truthy(o) THEN o ELSE 10

\* Math.log10(valuation + 1) for the valuations of the model's rosters
Log10Plus1(v) ==
  CASE v = 0 -> 0
    [] v = 9 -> 1
    [] v = 99 -> 2

MaturityDen == 240

\* the maturity without the test for a missing launch date: new Date(null)
\* is 1970-01-01
calculateDeploymentMaturityOfEpoch(company) ==
  IF company.productLaunch # NULL /\ company.productLaunch > CURRENT_DATE THEN 0
  ELSE LET productLaunch == IF company.productLaunch = NULL THEN 0 - 10957
                            ELSE company.productLaunch
           monthsSinceLaunch == (CURRENT_DATE - productLaunch) \div 30
           effectiveMonths ==
             IF productLaunch < AI_ERA_START
               THEN IF monthsSinceLaunch < MONTHS_SINCE_AI_ERA
                      THEN monthsSinceLaunch ELSE MONTHS_SINCE_AI_ERA
               ELSE monthsSinceLaunch
       IN IF effectiveMonths <= 6 THEN 48 + 12 * effectiveMonths
          ELSE IF effectiveMonths <= 12 THEN 120 + 10 * (effectiveMonths - 6)
          ELSE IF effectiveMonths <= 24 THEN 180 + 5 * (effectiveMonths - 12)
          ELSE 240

\* the maturity with the first ramp's slope kept up to 12 months
calculateDeploymentMaturitySteep(company) ==
  IF company.productLaunch = NULL THEN 0
  ELSE IF company.productLaunch > CURRENT_DATE THEN 0
  ELSE LET monthsSinceLaunch == (CURRENT_DATE - company.productLaunch) \div 30
           effectiveMonths ==
             IF company.productLaunch < AI_ERA_START
               THEN IF monthsSinceLaunch < MONTHS_SINCE_AI_ERA
                      THEN monthsSinceLaunch ELSE MONTHS_SINCE_AI_ERA
               ELSE monthsSinceLaunch
       IN IF effectiveMonths <= 6 THEN 48 + 12 * effectiveMonths
          ELSE IF effectiveMonths <= 12 THEN 120 + 12 * (effectiveMonths - 6)
          ELSE IF effectiveMonths <= 24 THEN 180 + 5 * (effectiveMonths - 12)
          ELSE 240

\* calculateDeploymentMaturity, in 240ths
calculateDeploymentMaturity(company) ==
  IF company.productLaunch = NULL THEN 0
  ELSE IF company.productLaunch > CURRENT_DATE THEN 0
  ELSE LET monthsSinceLaunch == (CURRENT_DATE - company.productLaunch) \div 30
           effectiveMonths ==
             IF company.productLaunch < AI_ERA_START
               THEN IF monthsSinceLaunch < MONTHS_SINCE_AI_ERA
                      THEN monthsSinceLaunch ELSE MONTHS_SINCE_AI_ERA
               ELSE monthsSinceLaunch
       IN IF effectiveMonths <= 6 THEN 48 + 12 * effectiveMonths
          ELSE IF effectiveMonths <= 12 THEN 120 + 10 * (effectiveMonths - 6)
          ELSE IF effectiveMonths <= 24 THEN 180 + 5 * (effectiveMonths - 12)
          ELSE 240

RECURSIVE SeqSum(_)
SeqSum(q) == IF q = << >> THEN 0 ELSE Head(q) + SeqSum(Tail(q))

RECURSIVE SeqProduct(_)
SeqProduct(q) == IF q = << >> THEN 1 ELSE Head(q) * SeqProduct(Tail(q))

RECURSIVE Gcd(_, _)
Gcd(a, b) == IF b = 0 THEN a ELSE Gcd(b, a % b)

RECURSIVE SeqGcd(_)
SeqGcd(q) == IF q = << >> THEN 0 ELSE Gcd(Head(q), SeqGcd(Tail(q)))

\* byCategory[cat] reduced to categoryTotalVal
categoryTotalVal(companies, cat) ==
  LET members == SelectSeq(companies, LAMBDA c : c.category = cat)
  IN SeqSum([i \in 1..Len(members) |-> Log10Plus1(members[i].valuation)])

\* the categories of the table that have a positive categoryTotalVal, in a
\* fixed order, and the product of those totals: the common denominator of
\* the market shares
SharedDen(companies) ==
  LET keys == SelectSeq(<< "foundation_models", "coding", "customer_service",
                          "administrative", "autonomous", "creative",
                          "sales_marketing", "analytics", "healthcare" >>,
                        LAMBDA k : categoryTotalVal(companies, k) > 0)
  IN SeqProduct([i \in 1..Len(keys) |-> categoryTotalVal(companies, keys[i])])

\* step 2 giving an entity the whole of a category whose log-scales sum to 0
ScoredWholeOfEmptyCategory(company, companies) ==
  LET total == categoryTotalVal(companies, company.category)
      val == Log10Plus1(company.valuation)
      factors ==
        [ categoryAllocation   |-> DISPLACEMENT_CATEGORIES[company.category],
          marketShare          |-> IF total > 0 THEN [num |-> val, den |-> total]
                                   ELSE [num |-> 1, den |-> 1],
          deploymentMaturity   |-> calculateDeploymentMaturity(company),
          displacementTypeMult |-> DisplacementTypeMult(company.displacementType),
          operationalFactor    |-> OperationalFactor(company.operationalStatus),
          enterpriseFactor     |-> EnterpriseMult(company.enterpriseLevel) ]
  IN [ company |-> company,
       factors |-> factors,
       rawScore |-> factors.categoryAllocation
                    * (factors.marketShare.num
                         * (SharedDen(companies) \div factors.marketShare.den))
                    * factors.deploymentMaturity
                    * factors.displacementTypeMult
                    * factors.operationalFactor
                    * factors.enterpriseFactor ]

\* step 2 for one company of a known category: the factors, and rawScore as a
\* numerator over 100 * SharedDen * 240 * 20 * 10 * 20
Scored(company, companies) ==
  LET total == categoryTotalVal(companies, company.category)
      val == Log10Plus1(company.valuation)
      factors ==
        [ categoryAllocation   |-> DISPLACEMENT_CATEGORIES[company.category],
          marketShare          |-> IF total > 0 THEN [num |-> val, den |-> total]
                                   ELSE [num |-> 0, den |-> 1],
          deploymentMaturity   |-> calculateDeploymentMaturity(company),
          displacementTypeMult |-> DisplacementTypeMult(company.displacementType),
          operationalFactor    |-> OperationalFactor(company.operationalStatus),
          enterpriseFactor     |-> EnterpriseMult(company.enterpriseLevel) ]
  IN [ company |-> company,
       factors |-> factors,
       rawScore |-> factors.categoryAllocation
                    * (factors.marketShare.num
                         * (SharedDen(companies) \div factors.marketShare.den))
                    * factors.deploymentMaturity
                    * factors.displacementTypeMult
                    * factors.operationalFactor
                    * factors.enterpriseFactor ]

\* step 3 with the share taken against the other companies' raw scores
NormalizedAgainstOthers(sc, g, totalRaw, total) ==
  LET num == IF g > 0 THEN sc.rawScore \div g ELSE 0
      den == IF g > 0 /\ totalRaw > sc.rawScore
               THEN (totalRaw - sc.rawScore) \div g ELSE 1
  IN [ name |-> sc.company.name,
       category |-> sc.company.category,
       valuation |-> sc.company.valuation,
       displacement |-> IF totalRaw > 0 THEN Round(total * num, den) ELSE 0,
       percentage |-> IF totalRaw > 0 THEN [num |-> num, den |-> den]
                      ELSE [num |-> 0, den |-> 1],
       rawFactors |-> sc.factors ]

\* step 3 for one scored company: percentage = rawScore / totalRaw, taken
\* over the raw scores divided by their greatest common divisor g
Normalized(sc, g, totalRaw, total) ==
  LET num == IF g > 0 THEN sc.rawScore \div g ELSE 0
      den == IF g > 0 THEN totalRaw \div g ELSE 1
  IN [ name |-> sc.company.name,
       category |-> sc.company.category,
       valuation |-> sc.company.valuation,
       displacement |-> IF totalRaw > 0 THEN Round(total * num, den) ELSE 0,
       percentage |-> IF totalRaw > 0 THEN [num |-> num, den |-> den]
                      ELSE [num |-> 0, den |-> 1],
       rawFactors |-> sc.factors ]

\* the sort taking the items in reverse input order among equals
RECURSIVE SortByDisplacementLastFirst(_)
SortByDisplacementLastFirst(q) ==
  IF q = << >> THEN << >>
  ELSE LET top == CHOOSE i \in 1..Len(q) :
                    /\ \A j \in 1..Len(q) : q[j].displacement <= q[i].displacement
                    /\ \A j \in (i + 1)..Len(q) :
                         q[j].displacement < q[i].displacement
       IN << q[top] >> \o
          SortByDisplacementLastFirst(SubSeq(q, 1, top - 1)
                                        \o SubSeq(q, top + 1, Len(q)))

\* normalized.sort((a, b) => b.displacement - a.displacement): a stable sort,
\* highest displacement first
RECURSIVE SortByDisplacement(_)
SortByDisplacement(q) ==
  IF q = << >> THEN << >>
  ELSE LET top == CHOOSE i \in 1..Len(q) :
                    /\ \A j \in 1..Len(q) : q[j].displacement <= q[i].displacement
                    /\ \A j \in 1..(i - 1) :
                         q[j].displacement < q[i].displacement
       IN << q[top] >> \o
          SortByDisplacement(SubSeq(q, 1, top - 1)
                               \o SubSeq(q, top + 1, Len(q)))

\* calculateDisplacementScores(companies, totalDisplacement): the ranked list,
\* or a TypeError thrown from categoryCompanies.reduce
calculateDisplacementScores(companies, total) ==
  IF \E i \in 1..Len(companies) : companies[i].category \in InheritedKeys
    THEN [status |-> "threw", list |-> << >>]
  ELSE
    LET known == SelectSeq(companies, LAMBDA c : c.category \in CategoryKeys)
        scored == [i \in 1..Len(known) |-> Scored(known[i], companies)]
        raws == [i \in 1..Len(scored) |-> scored[i].rawScore]
        totalRaw == SeqSum(raws)
        g == SeqGcd(raws)
        normalized == [i \in 1..Len(scored) |->
                         Normalized(scored[i], g, totalRaw, total)]
        sorted == SortByDisplacement(normalized)
    IN [ status |-> "returned",
         list |-> [i \in 1..Len(sorted) |->
                     [ rank |-> i,
                       name |-> sorted[i].name,
                       category |-> sorted[i].category,
                       valuation |-> sorted[i].valuation,
                       displacement |-> sorted[i].displacement,
                       percentage |-> sorted[i].percentage,
                       rawFactors |-> sorted[i].rawFactors ]] ]

\* a roster entry (industry, founded and notes are copied through and never
\* read)
Company(name, valuation, category, productLaunch, displacementType, operationalStatus, enterpriseLevel) ==
  [ name |-> name, valuation |-> valuation, category |-> category,
    productLaunch |-> productLaunch, displacementType |-> displacementType,
    operationalStatus |-> operationalStatus, enterpriseLevel |-> enterpriseLevel ]

\* the companies the model's rosters are made of
CompanyPool ==
  { Company("leader", 99, "foundation_models", CURRENT_DATE - 720,
            "direct", 10, "enterprise"),
    Company("newcomer", 9, "foundation_models", CURRENT_DATE - 90,
            "infrastructure", 10, "enterprise"),
    Company("suspended", 9, "foundation_models", CURRENT_DATE - 720,
            "direct", 0, "enterprise"),
    Company("lab", 99, "foundation_models", NULL,
            "direct", 10, "enterprise"),
    Company("scribe", 9, "healthcare", CURRENT_DATE - 720,
            "augmentation", 5, "prosumer"),
    Company("paused", 99, "healthcare", CURRENT_DATE - 360,
            "infrastructure", 0, "consumer"),
    Company("stealth", 9, "healthcare", NULL,
            "infrastructure", 0, "enterprise"),
    Company("announced", 9, "healthcare", CURRENT_DATE + 30,
            "direct", 10, "enterprise"),
    Company("shell", 0, "foundation_models", CURRENT_DATE - 720,
            "direct", 10, "enterprise"),
    Company("robotics", 9, "robotics", CURRENT_DATE - 720,
            "direct", 10, "enterprise"),
    Company("builder", 9, "constructor", CURRENT_DATE - 720,
            "direct", 10, "enterprise") }

\* rosters: one to MaxRoster different companies of the pool, in any order
Rosters ==
  { q \in UNION { [1..n -> CompanyPool] : n \in 1..MaxRoster } :
      \A i, j \in 1..Len(q) : i # j => q[i] # q[j] }

Totals == {0, 1, 10, 1000}

AttrInit ==
  /\ ServerInit /\ zeroTicks = 0 /\ PageInit /\ StoreIdle
  /\ roster \in Rosters
  /\ totalDisplacement \in Totals
  /\ result = NotCalled
  /\ again = NotCalled
  /\ TableLoaded

\* a call that reverses the companies array it was given
ScoreReversesRoster ==
  /\ result.status = "none"
  /\ result' = calculateDisplacementScores(roster, totalDisplacement)
  /\ roster' = [i \in 1..Len(roster) |-> roster[Len(roster) + 1 - i]]
  /\ UNCHANGED << totalDisplacement, again, allocations, assertion >>
  /\ UNCHANGED << serverVars, zeroTicks, clientVars, storeVars >>

\* renderCompanies: companies = calculateDisplacementScores(roster, total)
Score ==
  /\ result.status = "none"
  /\ result' = calculateDisplacementScores(roster, totalDisplacement)
  /\ UNCHANGED << roster, totalDisplacement, again, allocations, assertion >>
  /\ UNCHANGED << serverVars, zeroTicks, clientVars, storeVars >>

AttrNext == Score

\* launch dates every 15 days back from the current date
LaunchDates == { CURRENT_DATE - 15 * k : k \in 0..(2 * MaxAgeMonths) }

\* rosters of one or two launched companies that differ in their launch date
\* only
MaturityRosters ==
  { << Company("first", 9, "coding", d, "direct", 10, "enterprise") >> :
      d \in LaunchDates }
  \cup
  { << Company("first", 9, "coding", d1, "direct", 10, "enterprise"),
       Company("second", 9, "coding", d2, "direct", 10, "enterprise") >> :
      d1 \in LaunchDates, d2 \in LaunchDates }

MaturityInit ==
  /\ ServerInit /\ zeroTicks = 0 /\ PageInit /\ StoreIdle
  /\ roster \in MaturityRosters
  /\ totalDisplacement = 1000
  /\ result = NotCalled
  /\ again = NotCalled
  /\ TableLoaded

MaturitySpec == MaturityInit /\ [][AttrNext]_vars

AttrSpec == AttrInit /\ [][AttrNext]_vars

\* a second call of calculateDisplacementScores with the arguments of the
\* first, on the roster and the table as the first call left them
ScoreAgain ==
  /\ result.status # "none"
  /\ again.status = "none"
  /\ again' = calculateDisplacementScores(roster, totalDisplacement)
  /\ UNCHANGED << roster, totalDisplacement, result, allocations, assertion >>
  /\ UNCHANGED << serverVars, zeroTicks, clientVars, storeVars >>

RepeatNext ==
  \/ Score
  \/ ScoreAgain

RepeatSpec == AttrInit /\ [][RepeatNext]_vars

\* two entities of one category, each drawn from every combination of
\* valuation, launch date (none, three months, thirty months ago), type,
\* operational status and market tier
PairPool(name) ==
  { Company(name, v, "coding", d, t, o, l) :
      v \in {0, 9, 99},
      d \in {NULL, CURRENT_DATE - 90, CURRENT_DATE - 900},
      t \in {"direct", "infrastructure"},
      o \in {0, 5, 10},
      l \in {"enterprise", "consumer"} }

PairRosters == { << a, b >> : a \in PairPool("A"), b \in PairPool("B") }

PairInit ==
  /\ ServerInit /\ zeroTicks = 0 /\ PageInit /\ StoreIdle
  /\ roster \in PairRosters
  /\ totalDisplacement = 1000
  /\ result = NotCalled
  /\ again = NotCalled
  /\ TableLoaded

PairSpec == PairInit /\ [][AttrNext]_vars

\* ---------------------------------------------------------------------------
\* Loading the category table: totalAllocation and the console.assert on it.
\* Allocations are exact thousandths; the floating-point sum is within 10^-15
\* of the exact one, so the comparison with 0.01 can go either way only when
\* the exact sum is 0.01 off 1.0.
\* ---------------------------------------------------------------------------
CategoryList ==
  << "foundation_models", "coding", "customer_service", "administrative",
     "autonomous", "creative", "sales_marketing", "analytics", "healthcare" >>

\* Object.values(DISPLACEMENT_CATEGORIES).reduce((sum, c) => sum + c.allocation, 0)
totalAllocation(t) == SeqSum([i \in 1..Len(CategoryList) |-> t[CategoryList[i]]])

\* the condition without Math.abs: totalAllocation - 1.0 < 0.01
AllocationCheckSigned(t) ==
  LET over == totalAllocation(t) - 1000
  IN IF over < 10 THEN {"passed"}
     ELSE IF over > 10 THEN {"failed"}
     ELSE {"passed", "failed"}

\* console.assert(Math.abs(totalAllocation - 1.0) < 0.01, ...): the outcomes
AllocationCheck(t) ==
  LET over == totalAllocation(t) - 1000
      off == IF over < 0 THEN 0 - over ELSE over
  IN IF off < 10 THEN {"passed"}
     ELSE IF off > 10 THEN {"failed"}
     ELSE {"passed", "failed"}

\* the module's own table, in thousandths
OwnTable == [k \in CategoryKeys |-> 10 * DISPLACEMENT_CATEGORIES[k]]

\* tables: the module's own, or with one allocation off by up to MaxSkew
\* thousandths (and still positive)
Tables ==
  { t \in { [OwnTable EXCEPT ![k] = @ + d] :
              k \in CategoryKeys, d \in (0 - MaxSkew)..MaxSkew } :
      \A k \in CategoryKeys : t[k] > 0 }

\* the module is about to load
TableInit ==
  /\ ServerInit /\ zeroTicks = 0 /\ PageInit /\ StoreIdle
  /\ roster = << >> /\ totalDisplacement = 0 /\ result = NotCalled
  /\ again = NotCalled
  /\ allocations \in Tables
  /\ assertion = "pending"

\* the module loads: the sum is taken and asserted on
LoadTable ==
  /\ assertion = "pending"
  /\ assertion' \in AllocationCheck(allocations)
  /\ UNCHANGED << roster, totalDisplacement, result, again, allocations >>
  /\ UNCHANGED << serverVars, zeroTicks, clientVars, storeVars >>

TableNext == LoadTable

TableSpec == TableInit /\ [][TableNext]_vars

\* ---------------------------------------------------------------------------
\* The data store (src/data/store.js) on its own: one DataStore instance, a
\* Redis server that is configured or not and up or not, and the callers of
\* initialize and of the setters. A call is one step: what the caller sees
\* once the returned promise has settled. A Redis key holds a JSON text,
\* kept as a one-element sequence (<< >> when the key is absent); the events
\* written to the sorted set 'events' are never read back and are left out.
\* An event is [id, age], age being whole days from event_time to Date.now().
\* ---------------------------------------------------------------------------
\* JSON.stringify(v) as the value of a Redis key
Stringify(v) == << v >>

\* JSON.parse(text)
Parse(text) == text[1]

\* restoreState(): the first `reads` of the three gets succeed, the others
\* are skipped by the catch
restoreState(st, ca, reads) ==
  LET m0 == st.memory
      m1 == IF reads >= 1 /\ ca.state # << >>
              THEN [m0 EXCEPT !.state = Parse(ca.state)] ELSE m0
      m2 == IF reads >= 2 /\ ca.counters # << >>
              THEN [m1 EXCEPT !.counters = Parse(ca.counters)] ELSE m1
      m3 == IF reads >= 3 /\ ca.jolts # << >>
              THEN [m2 EXCEPT !.joltsAnchor = Parse(ca.jolts)] ELSE m2
  IN IF st.useRedis THEN [st EXCEPT !.memory = m3] ELSE st

\* initialize(): ping is what redis.ping() gave ("pong" or "error"; "none"
\* when Redis is not enabled)
initialize(st, ca, ping, reads) ==
  IF ca.enabled
    THEN IF ping = "pong"
           THEN restoreState([st EXCEPT !.useRedis = TRUE, !.initialized = TRUE],
                             ca, reads)
           ELSE [st EXCEPT !.useRedis = FALSE, !.initialized = TRUE]
    ELSE [st EXCEPT !.initialized = TRUE]

\* redis.set(key, text) from a setter: done when the store uses Redis and the
\* server is up, otherwise skipped or caught and logged
RedisSet(st, ca, key, text) ==
  IF st.useRedis /\ ca.up
    THEN CASE key = "nowcast:counters" -> [ca EXCEPT !.counters = text]
           [] key = "nowcast:state" -> [ca EXCEPT !.state = text]
           [] key = "nowcast:jolts" -> [ca EXCEPT !.jolts = text]
    ELSE ca

\* setCounters writing through: the memory copy is set once Redis has taken
\* the value
setCountersWriteThrough(st, ca, total, ai) ==
  LET counters == [total |-> total, ai |-> ai]
  IN [ store |-> IF st.useRedis /\ ~ca.up THEN st
                 ELSE [st EXCEPT !.memory.counters = counters],
       cache |-> RedisSet(st, ca, "nowcast:counters", Stringify(counters)) ]

\* setCounters(total, ai)
setCounters(st, ca, total, ai) ==
  LET counters == [total |-> total, ai |-> ai]
  IN [ store |-> [st EXCEPT !.memory.counters = counters],
       cache |-> RedisSet(st, ca, "nowcast:counters", Stringify(counters)) ]

\* getCounters()
getCounters(st) == [total |-> st.memory.counters.total, ai |-> st.memory.counters.ai]

\* incrementCounters(totalDelta, aiDelta); persist is Math.random() < 0.1
incrementCounters(st, ca, totalDelta, aiDelta, persist) ==
  LET counters == [total |-> st.memory.counters.total + totalDelta,
                   ai |-> st.memory.counters.ai + aiDelta]
  IN [ store |-> [st EXCEPT !.memory.counters = counters],
       cache |-> IF persist
                   THEN RedisSet(st, ca, "nowcast:counters", Stringify(counters))
                   ELSE ca ]

\* setState(state)
setState(st, ca, v) ==
  [ store |-> [st EXCEPT !.memory.state = v],
    cache |-> RedisSet(st, ca, "nowcast:state", Stringify(v)) ]

\* DataStore.getState()
storeGetState(st) == st.memory.state

\* setJoltsAnchor(data)
setJoltsAnchor(st, ca, data) ==
  [ store |-> [st EXCEPT !.memory.joltsAnchor = data],
    cache |-> RedisSet(st, ca, "nowcast:jolts", Stringify(data)) ]

\* getJoltsAnchor()
getJoltsAnchor(st) == st.memory.joltsAnchor

\* addEvent without the duplicate check
addEventNoDedupe(st, event) ==
  [ store |-> [st EXCEPT !.memory.events =
                 SelectSeq(Append(@, event), LAMBDA e : e.age < 90)],
    returned |-> "true" ]

\* addEvent(event): refused when the id is stored already; otherwise pushed,
\* and the list is cut to the events of the last 90 days
addEvent(st, event) ==
  IF \E i \in 1..Len(st.memory.events) : st.memory.events[i].id = event.id
    THEN [store |-> st, returned |-> "false"]
    ELSE [ store |-> [st EXCEPT !.memory.events =
                        SelectSeq(Append(@, event), LAMBDA e : e.age < 90)],
           returned |-> "true" ]

\* getEvents({ days, limit }) (the defaults are 7 and 100): the events of the
\* last `days` days, the last `limit` of them
getEvents(st, days, limit) ==
  LET recent == SelectSeq(st.memory.events, LAMBDA e : e.age < days)
  IN SubSeq(recent, IF Len(recent) > limit THEN Len(recent) - limit + 1 ELSE 1,
            Len(recent))

\* getEventCount()
getEventCount(st) == Len(st.memory.events)

\* the arguments the callers pass
CounterArgs == { [total |-> 7, ai |-> 3] }
DeltaArgs == { [total |-> 1, ai |-> 1] }
StateArgs == { "s1", "s2" }
JoltsArgs == { "j1" }
EventArgs == { [id |-> 1, age |-> 1], [id |-> 1, age |-> 2],
               [id |-> 2, age |-> 30], [id |-> 3, age |-> 100] }

\* what an earlier run of the process may have left in Redis
Leftovers ==
  [ counters : {<< >>, Stringify([total |-> 5, ai |-> 2])},
    state : {<< >>, Stringify("s0")},
    jolts : {<< >>, Stringify("j0")} ]

StoreInit ==
  /\ ServerInit /\ zeroTicks = 0 /\ PageInit /\ EngineIdle
  /\ store = StoreConstructed
  /\ \E enabled \in BOOLEAN, up \in BOOLEAN, left \in Leftovers :
       cache = [enabled |-> enabled, up |-> enabled /\ up,
                counters |-> IF enabled THEN left.counters ELSE << >>,
                state |-> IF enabled THEN left.state ELSE << >>,
                jolts |-> IF enabled THEN left.jolts ELSE << >>]
  /\ lastCall = NoCall
  /\ calls = 0

\* the frame of a DataStore call
Called(op, arg, returned, ping) ==
  /\ calls < MaxCalls
  /\ calls' = calls + 1
  /\ lastCall' = [op |-> op, rejected |-> FALSE, returned |-> returned,
                 ping |-> ping, arg |-> arg]
  /\ UNCHANGED << serverVars, zeroTicks, clientVars, engineVars >>

\* await store.initialize(); Redis may go down between the ping and the
\* reads of restoreState
StoreInitialize ==
  /\ ~store.initialized
  /\ \E reads \in 0..3 :
       LET ping == IF ~cache.enabled THEN "none"
                   ELSE IF cache.up THEN "pong" ELSE "error"
       IN /\ store' = initialize(store, cache, ping, reads)
          /\ cache' = IF cache.up /\ reads < 3 THEN [cache EXCEPT !.up = FALSE]
                      ELSE cache
          /\ Called("initialize", "none", "this", ping)

SetCounters ==
  \E a \in CounterArgs :
    /\ store' = setCounters(store, cache, a.total, a.ai).store
    /\ cache' = setCounters(store, cache, a.total, a.ai).cache
    /\ Called("setCounters", a, "undefined", "none")

IncrementCounters ==
  \E a \in DeltaArgs, persist \in BOOLEAN :
    /\ store' = incrementCounters(store, cache, a.total, a.ai, persist).store
    /\ cache' = incrementCounters(store, cache, a.total, a.ai, persist).cache
    /\ Called("incrementCounters", a, "undefined", "none")

SetState ==
  \E v \in StateArgs :
    /\ store' = setState(store, cache, v).store
    /\ cache' = setState(store, cache, v).cache
    /\ Called("setState", v, "undefined", "none")

SetJoltsAnchor ==
  \E d \in JoltsArgs :
    /\ store' = setJoltsAnchor(store, cache, d).store
    /\ cache' = setJoltsAnchor(store, cache, d).cache
    /\ Called("setJoltsAnchor", d, "undefined", "none")

AddEvent ==
  \E e \in EventArgs :
    /\ store' = addEvent(store, e).store
    /\ cache' = cache
    /\ Called("addEvent", e, addEvent(store, e).returned, "none")

\* the Redis server goes away
RedisDown ==
  /\ cache.up
  /\ cache' = [cache EXCEPT !.up = FALSE]
  /\ UNCHANGED << store, lastCall, calls >>
  /\ UNCHANGED << serverVars, zeroTicks, clientVars, engineVars >>

\* the Redis server comes back
RedisUp ==
  /\ cache.enabled /\ ~cache.up
  /\ cache' = [cache EXCEPT !.up = TRUE]
  /\ UNCHANGED << store, lastCall, calls >>
  /\ UNCHANGED << serverVars, zeroTicks, clientVars, engineVars >>

StoreNext ==
  \/ StoreInitialize
  \/ SetCounters
  \/ IncrementCounters
  \/ SetState
  \/ SetJoltsAnchor
  \/ AddEvent
  \/ RedisDown
  \/ RedisUp

StoreSpec == StoreInit /\ [][StoreNext]_vars

\* ---------------------------------------------------------------------------
\* Properties
\* ---------------------------------------------------------------------------
\* a step in which a fetchAllData call ran to completion
RefreshCompletes == Len(pending') < Len(pending)

StoredValues == [k \in Series |-> fred[k].value]

Categories == { industries[i] : i \in 1..Len(industries) }

RECURSIVE SumOver(_, _)
\* the sum of w[k] over the keys k of S
SumOver(S, w) ==
  IF S = {} THEN 0
  ELSE LET k == CHOOSE x \in S : TRUE IN w[k] + SumOver(S \ {k}, w)

\* C1: counter.value never decreases from one state to the next.
C1_ValueNeverDecreases == [][counter'.value >= counter.value]_vars

\* C2: counter.fraction lies in [0,1) and counter.value is a non-negative
\* integer, in every state and so after every tick.
C2_FractionInUnitInterval ==
  /\ counter.fraction >= 0
  /\ counter.fraction < FracDen
  /\ counter.value \in Nat

\* a tick has carried whole jobs into counter.value and left a remainder
C2_Witness == tickedUp /\ counter.fraction > 0 /\ counter.lastTick > 0

\* C3: every open connection has got exactly one init message, before any
\* tick, and the counters of the messages sent on it are non-decreasing in
\* send order.
C3_InitOnceThenOrdered ==
  \A c \in Conns :
    readyState[c] = "OPEN" =>
      /\ log[c].inits = 1
      /\ log[c].firstInit
      /\ log[c].ordered

\* C4: a series whose request failed in a refresh keeps the value and date it
\* had before that refresh.
C4_FailedSeriesKeepsLastGood ==
  [][ RefreshCompletes =>
        \A k \in Series :
          fred'[k].error => /\ fred'[k].value = fred[k].value
                            /\ fred'[k].date = fred[k].date ]_vars

\* C5: a refresh that ends with the total zero or unavailable leaves every
\* field of liveData.calculated as it was.
C5_NoTotalKeepsCalculated ==
  [][ (RefreshCompletes /\ ~Truthy(fred'["total"].value))
        => calculated' = calculated ]_vars

\* rates of an earlier refresh are still published after one without a total
C5_Witness ==
  /\ ~Truthy(fred["total"].value)
  /\ roundOf["total"]
  /\ calculated.perSecond > 0
  /\ calculated.historicalMid > 0

\* C6: once a refresh has failed for all series while perSecond is positive,
\* a later tick raises counter.value again (as long as the clock of the model
\* can still advance).
C6_KeepsCounting ==
  (Len(errors) = Len(FRED_SERIES) /\ calculated.perSecond > 0 /\ now < MaxTime)
    ~> tickedUp

\* the counter went up after a refresh in which every series failed
C6_Witness ==
  /\ Len(errors) = Len(FRED_SERIES)
  /\ calculated.perSecond > 0
  /\ tickedUp

\* C7: after a refresh in which exactly one category failed while the total
\* and the other four came back positive, aiMid and perSecond are positive
\* and are the four categories at their own mid rates plus the remainder of
\* the total at the 'other' rate.
C7_OneCategoryDown ==
  \A k \in Categories :
    ( /\ errors = << k >>
      /\ \A j \in Series \ {k} : fred[j].value > 0 )
    => LET good == Categories \ {k}
           known == SumOver(good, [j \in good |-> fred[j].value])
           rest == IF fred["total"].value > known
                     THEN fred["total"].value - known ELSE 0
           mid100 == SumOver(good, [j \in good |->
                                      fred[j].value * AI_EXPOSURE_MODEL[j].mid])
                     + rest * AI_EXPOSURE_MODEL["other"].mid
       IN /\ calculated.perSecond = mid100
          /\ calculated.perSecond > 0
          /\ calculated.aiMid = Round(mid100, 100)
          /\ calculated.aiMid > 0
          /\ fred[k].error

\* such a refresh has completed
C7_Witness ==
  /\ \E k \in Categories : errors = << k >> /\ fred[k].value = NULL
  /\ \A j \in Series : (<< j >> # errors) => fred[j].value > 0
  /\ calculated.aiMid > 0

C9_RoundReachesEveryOpen == \A c \in Conns : ~missed[c]

\* an open connection received the tick of a round that had gone past an
\* earlier-added connection, still in the set but no longer open
C9_Witness ==
  \E i, j \in 1..Len(clients) :
    /\ i < j
    /\ readyState[clients[i]] = "CLOSED"
    /\ readyState[clients[j]] = "OPEN"
    /\ log[clients[j]].lastType = "tick"
    /\ clients[i] \in log[clients[j]].past

\* C10: connection events never advance the counter; the counter changes only
\* by one application of the tick (or the start-up seeding); and after a tick
\* every open connection holds the same message, carrying the counter as
\* that one tick left it.
C10_OneAdvancePerFiring ==
  [][ /\ (clients' # clients \/ readyState' # readyState) => counter' = counter
      /\ (counter' # counter /\ ~RefreshCompletes) =>
            /\ counter'.lastTick = now
            /\ \E r4 \in RandDraws :
                 counter' = CounterTick(counter, calculated, now, r4)
            /\ \A c \in Conns :
                 (InSet(clients, c) /\ readyState[c] = "OPEN") =>
                    /\ log'[c].lastType = "tick"
                    /\ log'[c].lastCounter = counter'.value ]_vars

\* the start-up initialize() ran counter.initialize() in this step and found
\* historicalMid positive: counter.value is assigned from it
SeededByInitialize ==
  /\ \E i \in 1..Len(pending) : pending[i] = "startup"
  /\ \A i \in 1..Len(pending') : pending'[i] # "startup"
  /\ calculated'.historicalMid > 0

\* a tick found the counter uninitialized and historicalMid positive in this
\* step: counter.value is assigned from it
SeededByTick ==
  /\ pending' = pending
  /\ ~counter.initialized
  /\ counter'.initialized

\* C11: counter.value is assigned from historicalMid at most once in a run:
\* every step that assigns it from historicalMid starts from a counter that
\* has not been initialized.
C11_SeededOnce ==
  [][ /\ SeededByInitialize => ~counter.initialized
      /\ SeededByTick => ~counter.initialized ]_vars

\* C12 as stated: a tick with zero elapsed time leaves counter.value and
\* counter.fraction as they were.
C12_ZeroTickChangesNothing ==
  [][ zeroTicks' # zeroTicks =>
        /\ counter'.value = counter.value
        /\ counter'.fraction = counter.fraction ]_vars

\* C12 amended: a tick with zero elapsed time on a counter that is seeded, or
\* that has no positive historical total to be seeded from, leaves
\* counter.value and counter.fraction as they were, for any rate and draw.
C12_ZeroTickAfterSeeding ==
  [][ (zeroTicks' # zeroTicks
        /\ (counter.initialized \/ calculated.historicalMid <= 0)) =>
        /\ counter'.value = counter.value
        /\ counter'.fraction = counter.fraction ]_vars

\* repeated zero-elapsed ticks ran on a seeded counter at a positive rate
C12_Witness ==
  /\ zeroTicks = MaxZeroTicks
  /\ counter.initialized
  /\ calculated.perSecond > 0
  /\ counter.fraction > 0
  /\ counter.lastTick = now

\* C13: the displayed value state.counterDecimal never decreases.
C13_DisplayNeverDecreases ==
  [][state'.counterDecimal >= state.counterDecimal]_vars

\* C14: every close of the socket schedules exactly one connect() for
\* TimerDelay later, whether the socket had opened or the attempt had failed,
\* with no limit on the attempts; and a closed socket leads to a connection
\* on which updates are received again.
C14_ReconnectsAfterClose ==
  /\ [](Len(timers) <= 1 /\ (ws = "CLOSED" <=> Len(timers) = 1))
  /\ [][ (ws' = "CLOSED" /\ ws # "CLOSED")
           => timers' = << clock + TimerDelay >> ]_vars
  /\ (ws = "CLOSED") ~> (ws = "OPEN" /\ state.connected /\ received)

\* updates are being received again after every loss the run allows
C14_Witness ==
  /\ outages = MaxOutages
  /\ serverUp
  /\ ws = "OPEN"
  /\ state.connected
  /\ received
  /\ timers = << >>

\* the call has returned its list
Returned == result.status = "returned"

\* the roster entry a result entry was made from
RosterIndex(name) == CHOOSE i \in 1..Len(roster) : roster[i].name = name

RosterCompany(name) == roster[RosterIndex(name)]

SumOfDisplacement ==
  SeqSum([i \in 1..Len(result.list) |-> result.list[i].displacement])

\* some returned entity has a positive raw score
SomeRawScore == \E i \in 1..Len(result.list) : result.list[i].percentage.num > 0

\* the product of the six factors of a result entry is zero
RawScoreZero(e) ==
  \/ e.rawFactors.marketShare.num = 0
  \/ e.rawFactors.deploymentMaturity = 0
  \/ e.rawFactors.categoryAllocation = 0
  \/ e.rawFactors.displacementTypeMult = 0
  \/ e.rawFactors.operationalFactor = 0
  \/ e.rawFactors.enterpriseFactor = 0

\* C15 as stated: the displacements returned sum to the total within one unit
\* per returned entity.
C15_SumWithinEntityCount ==
  Returned =>
    /\ SumOfDisplacement - totalDisplacement <= Len(result.list)
    /\ totalDisplacement - SumOfDisplacement <= Len(result.list)

\* C15 amended: when some returned entity has a positive raw score the
\* displacements sum to the total within one unit per returned entity; when
\* none has, every displacement is 0.
C15_SumWithinCountIfScored ==
  Returned =>
    IF SomeRawScore
      THEN /\ SumOfDisplacement - totalDisplacement <= Len(result.list)
           /\ totalDisplacement - SumOfDisplacement <= Len(result.list)
      ELSE \A i \in 1..Len(result.list) : result.list[i].displacement = 0

\* several companies share the total and rounding has moved the sum off it
C15_Witness ==
  /\ Returned
  /\ Len(result.list) >= 2
  /\ SomeRawScore
  /\ SumOfDisplacement # totalDisplacement

\* C16: a company with operationalStatus 0 is given displacement 0.
C16_NotOperationalGetsNothing ==
  Returned =>
    \A i \in 1..Len(result.list) :
      RosterCompany(result.list[i].name).operationalStatus = 0
        => result.list[i].displacement = 0

\* C17: a company without a launch date has maturity 0, raw score 0 and
\* displacement 0.
C17_NoLaunchGetsNothing ==
  Returned =>
    \A i \in 1..Len(result.list) :
      RosterCompany(result.list[i].name).productLaunch = NULL
        => /\ result.list[i].rawFactors.deploymentMaturity = 0
           /\ RawScoreZero(result.list[i])
           /\ result.list[i].percentage.num = 0
           /\ result.list[i].displacement = 0

\* a company without a launch date was scored next to one that was given
\* part of the total
C17_Witness ==
  /\ Returned
  /\ \E i, j \in 1..Len(result.list) :
       /\ RosterCompany(result.list[i].name).productLaunch = NULL
       /\ RosterCompany(result.list[i].name).operationalStatus > 0
       /\ result.list[j].displacement > 0

\* days from the launch of a result entry's company to the current date
AgeInDays(e) == CURRENT_DATE - RosterCompany(e.name).productLaunch

\* C18: the maturity is 0.2, 0.5, 0.75 and 1.0 in the months 0, 6, 12 and 24
\* after a launch in the AI era, and of two launched companies the one
\* launched earlier has at least the maturity of the other.
C18_MaturityRamp ==
  Returned =>
    /\ \A i \in 1..Len(result.list) :
         LET e == result.list[i]
             months == AgeInDays(e) \div 30
             m == e.rawFactors.deploymentMaturity
         IN RosterCompany(e.name).productLaunch >= AI_ERA_START =>
              /\ months = 0 => m * 10 = 2 * MaturityDen
              /\ months = 6 => m * 10 = 5 * MaturityDen
              /\ months = 12 => m * 100 = 75 * MaturityDen
              /\ months = 24 => m = MaturityDen
    /\ \A i, j \in 1..Len(result.list) :
         AgeInDays(result.list[i]) <= AgeInDays(result.list[j])
           => result.list[i].rawFactors.deploymentMaturity
                <= result.list[j].rawFactors.deploymentMaturity

\* a company at the 12-month mark was scored next to one launched before the
\* AI era
C18_Witness ==
  /\ Returned
  /\ \E i, j \in 1..Len(result.list) :
       /\ AgeInDays(result.list[i]) = 360
       /\ result.list[i].rawFactors.deploymentMaturity * 100 = 75 * MaturityDen
       /\ RosterCompany(result.list[j].name).productLaunch < AI_ERA_START
       /\ result.list[j].rawFactors.deploymentMaturity = MaturityDen

\* C19: the call returns, with exactly one ranked entry for every company of
\* a category in the table and none for any other company, and the shares
\* of the entries add up to 1 (or are all 0).
C19_UnknownCategoryLeftOut ==
  result.status # "none" =>
    /\ Returned
    /\ \A k \in 1..Len(roster) :
         Cardinality({ i \in 1..Len(result.list) :
                         result.list[i].name = roster[k].name })
           = IF roster[k].category \in CategoryKeys THEN 1 ELSE 0
    /\ \A i \in 1..Len(result.list) : result.list[i].rank = i
    /\ \/ \A i \in 1..Len(result.list) : result.list[i].percentage.num = 0
       \/ \A i \in 1..Len(result.list) :
            SeqSum([j \in 1..Len(result.list) |->
                      result.list[j].percentage.num])
              = result.list[i].percentage.den

\* C20: the list is in descending order of displacement, ranked 1..n in list
\* order, and equal displacements keep their roster order.
C20_SortedRankedStable ==
  Returned =>
    /\ \A i \in 1..Len(result.list) : result.list[i].rank = i
    /\ \A i, j \in 1..Len(result.list) :
         i < j =>
           /\ result.list[i].displacement >= result.list[j].displacement
           /\ result.list[i].displacement = result.list[j].displacement
                => RosterIndex(result.list[i].name)
                     < RosterIndex(result.list[j].name)

\* a list in which two companies tie below a company that comes first from
\* a later place in the roster
C20_Witness ==
  /\ Returned
  /\ \E i, j, k \in 1..Len(result.list) :
       /\ i < j /\ j < k
       /\ result.list[i].displacement > result.list[j].displacement
       /\ result.list[j].displacement = result.list[k].displacement
       /\ RosterIndex(result.list[i].name) > RosterIndex(result.list[j].name)

\* two open viewers hold the same tick message after the counter went up
C10_Witness ==
  /\ Len(clients) >= 2
  /\ \A i \in 1..Len(clients) :
       /\ readyState[clients[i]] = "OPEN"
       /\ log[clients[i]].lastType = "tick"
       /\ log[clients[i]].lastCounter = counter.value
  /\ tickedUp

\* the result entries of one category
InCategory(k) == SelectSeq(result.list, LAMBDA e : e.category = k)

\* C21: every category with an entity of positive raw score receives its
\* allocation of the total: the displacements of its entities sum to
\* allocation * totalDisplacement within one unit per entity (allocations
\* are in hundredths).
C21_CategoryGetsAllocation ==
  Returned =>
    \A k \in CategoryKeys :
      LET members == InCategory(k)
          sum == SeqSum([i \in 1..Len(members) |-> members[i].displacement])
          share == DISPLACEMENT_CATEGORIES[k] * totalDisplacement
      IN (\E i \in 1..Len(members) : members[i].percentage.num > 0) =>
           /\ 100 * sum - share <= 100 * Len(members)
           /\ share - 100 * sum <= 100 * Len(members)

\* the exact sum of the loaded table is more than 0.01 off 1.0
SumViolated ==
  \/ totalAllocation(allocations) > 1010
  \/ totalAllocation(allocations) < 990

\* C22: the module's own allocations each lie in (0, 1] and sum to 1.0 within
\* 0.01, and its load passes the assertion; the load of a table whose sum is
\* more than 0.01 off 1.0 fails the assertion (the warning is printed).
C22_TableSumChecked ==
  /\ \A k \in CategoryKeys : OwnTable[k] > 0 /\ OwnTable[k] <= 1000
  /\ totalAllocation(OwnTable) >= 990 /\ totalAllocation(OwnTable) <= 1010
  /\ assertion # "pending" =>
       /\ SumViolated => assertion = "failed"
       /\ allocations = OwnTable => assertion = "passed"

\* a table whose allocations sum to less than 0.99 has been loaded and the
\* warning was printed
C22_Witness ==
  /\ assertion = "failed"
  /\ totalAllocation(allocations) < 990

\* an HTTP query was served in this step
QueryServed == reply' # NoReply

\* C23: serving a query (the state snapshot, the raw dump, the health probe)
\* changes none of the counter, liveData and the client set, so the tick that
\* comes after it produces what it would have produced without the query.
C23_QueriesChangeNothing ==
  [][ QueryServed =>
        /\ counter' = counter
        /\ fred' = fred /\ errors' = errors /\ calculated' = calculated
        /\ clients' = clients /\ readyState' = readyState
        /\ now' = now
        /\ \A r4 \in RandDraws :
             CounterTick(counter', calculated', now', r4)
               = CounterTick(counter, calculated, now, r4) ]_vars

\* the snapshot is served to an HTTP client while the counter runs with a
\* carry behind it and a viewer is connected
C23_Witness ==
  /\ reply.route = "metrics"
  /\ counter.initialized
  /\ tickedUp
  /\ counter.fraction > 0
  /\ Len(clients) > 0

\* a DataStore call was made in this step
StoreCalled == calls' # calls

\* what C24 says of initialize and of the setters other than addEvent: the
\* call settles without rejecting, useRedis becomes true only on a ping that
\* succeeded, and the getter returns what the setter was given
SettersKeepMemory ==
  /\ ~lastCall'.rejected
  /\ (store'.useRedis /\ ~store.useRedis) =>
        lastCall'.op = "initialize" /\ lastCall'.ping = "pong"
  /\ lastCall'.op = "initialize" =>
        (store'.useRedis <=> lastCall'.ping = "pong")
  /\ lastCall'.op = "setCounters" => getCounters(store') = lastCall'.arg
  /\ lastCall'.op = "incrementCounters" =>
        getCounters(store') =
          [total |-> getCounters(store).total + lastCall'.arg.total,
           ai |-> getCounters(store).ai + lastCall'.arg.ai]
  /\ lastCall'.op = "setState" => storeGetState(store') = lastCall'.arg
  /\ lastCall'.op = "setJoltsAnchor" => getJoltsAnchor(store') = lastCall'.arg

\* the event is in the sequence q
Holds(q, e) == \E i \in 1..Len(q) : q[i] = e

\* C24 as stated: initialize always resolves, useRedis is true only after a
\* ping that succeeded, and every setter, addEvent included, updates the
\* memory copy without throwing and its getter returns the new value.
C24_SettersAlwaysUpdate ==
  [][ StoreCalled =>
        /\ SettersKeepMemory
        /\ lastCall'.op = "addEvent" =>
             /\ Holds(store'.memory.events, lastCall'.arg)
             /\ Holds(getEvents(store', 90, 100), lastCall'.arg) ]_vars

\* C24 amended: as stated for initialize, setCounters, incrementCounters,
\* setState and setJoltsAnchor; addEvent refuses an event whose id is stored
\* (returns false, memory unchanged), drops an event of 90 days or more at
\* once, keeps any other event in memory, and getEvents returns it if it is
\* of the days asked for (7 by default).
C24_SettersUpdateEventsFiltered ==
  [][ StoreCalled =>
        /\ SettersKeepMemory
        /\ lastCall'.op = "addEvent" =>
             LET e == lastCall'.arg
                 stored == \E i \in 1..Len(store.memory.events) :
                             store.memory.events[i].id = e.id
             IN IF stored
                  THEN lastCall'.returned = "false" /\ store' = store
                  ELSE /\ lastCall'.returned = "true"
                       /\ Holds(store'.memory.events, e) <=> e.age < 90
                       /\ \A days \in {7, 90} :
                            Holds(getEvents(store', days, 100), e)
                              <=> e.age < days ]_vars

\* the store uses Redis, the server has gone away, and a setter has still
\* put its value in memory while the key in Redis holds another value
C24_Witness ==
  /\ store.useRedis
  /\ ~cache.up
  /\ lastCall.op = "setCounters"
  /\ getCounters(store) = lastCall.arg
  /\ cache.counters # Stringify(getCounters(store))

\* ---------------------------------------------------------------------------
\* The recompute on its own: calculateAIDisplacement applied once to stored
\* series drawn from the values a round can leave (null after a failed
\* request, NaN after a missing observation, zero, whole and fractional
\* thousands, an industry larger than the total).
\* ---------------------------------------------------------------------------
StoredEntry(v) ==
  IF v = NULL THEN [value |-> NULL, date |-> NULL, error |-> TRUE]
  ELSE [value |-> v, date |-> LatestDate, error |-> FALSE]

LatestValues ==
  [ total         |-> {NULL, NAN, 0, 1000000},
    information   |-> {NULL, NAN, 0, 50000, 50505, 1200000},
    professional  |-> {NULL, 200000},
    manufacturing |-> {NAN, 100000},
    finance       |-> {50000},
    retail        |-> {NULL, 100000} ]

RecomputeInit ==
  /\ \E v \in [Series -> UNION { LatestValues[k] : k \in Series }] :
       /\ \A k \in Series : v[k] \in LatestValues[k]
       /\ fred = [k \in Series |-> StoredEntry(v[k])]
  /\ errors = << >>
  /\ calculated = InitialCalculated
  /\ counter = [value |-> 0, fraction |-> 0, lastTick |-> 0, initialized |-> FALSE]
  /\ clients = << >>
  /\ readyState = [c \in Conns |-> "absent"]
  /\ pending = << >>
  /\ now = 0
  /\ log = [c \in Conns |-> EmptyLog]
  /\ missed = [c \in Conns |-> FALSE]
  /\ roundOf = [k \in Series |-> TRUE]
  /\ calcSource = [k \in Series |-> NULL]
  /\ tickedUp = FALSE
  /\ reply = NoReply
  /\ zeroTicks = 0 /\ PageInit /\ EngineIdle /\ StoreIdle

\* the call of calculateAIDisplacement that ends fetchAllData
Recalculate ==
  /\ calcSource = [k \in Series |-> NULL]
  /\ calculated' = calculateAIDisplacement(fred, calculated)
  /\ calcSource' = IF TotalMonthly(fred) = 0 THEN calcSource ELSE StoredValues
  /\ UNCHANGED << fred, errors, counter, clients, readyState, pending, now,
                  log, missed, roundOf, tickedUp, reply >>
  /\ UNCHANGED << zeroTicks, clientVars, engineVars, storeVars >>

RecomputeNext == Recalculate

RecomputeSpec == RecomputeInit /\ [][RecomputeNext]_vars

\* a series value that is a number: neither null nor the NaN of a missing
\* observation
HasValue(v) == v # NULL /\ v # NAN

TrackedWithValue(v) == { k \in Categories : HasValue(v[k]) }

\* 100 * (sum over the tracked categories with a value of value * rate, plus
\* max(0, total - sum of those values) * other rate), rates being in percent
StatedAggregate100(v, band) ==
  LET tracked == TrackedWithValue(v)
      residual == v["total"] - SumOver(tracked, v)
  IN SumOver(tracked, [k \in tracked |-> v[k] * AI_EXPOSURE_MODEL[k][band]])
     + (IF residual > 0 THEN residual ELSE 0) * AI_EXPOSURE_MODEL["other"][band]

\* C25: once a recompute has run on a positive total, each published
\* aggregate (low, mid, high) is the sum over the tracked categories with a
\* value of value * rate plus max(0, total - sum of those values) * other
\* rate, in whole jobs; the per-day figure is the mid aggregate over 30, in
\* whole jobs, and perSecond is the mid aggregate over 30 over 86400.  The
\* residual is floored at zero, so no aggregate is below the tracked part.
C25_AggregatesFromCategories ==
  calculated # InitialCalculated =>
    /\ calcSource["total"] > 0
    /\ calculated.aiLow  = Round(StatedAggregate100(calcSource, "low"), 100)
    /\ calculated.aiMid  = Round(StatedAggregate100(calcSource, "mid"), 100)
    /\ calculated.aiHigh = Round(StatedAggregate100(calcSource, "high"), 100)
    /\ calculated.perDayMid = Round(StatedAggregate100(calcSource, "mid"), 3000)
    /\ calculated.perSecond = StatedAggregate100(calcSource, "mid")
    /\ PerSecondDen = 100 * 30 * 86400
    /\ \A band \in {"low", "mid", "high"} :
         StatedAggregate100(calcSource, band) >=
           SumOver(TrackedWithValue(calcSource),
                   [k \in Categories |-> calcSource[k] * AI_EXPOSURE_MODEL[k][band]])

\* a recompute ran where the tracked categories exceed the total and one of
\* them has no value
C25_Witness ==
  /\ calculated # InitialCalculated
  /\ calcSource["total"] > 0
  /\ SumOver(TrackedWithValue(calcSource), calcSource) > calcSource["total"]
  /\ \E k \in Categories : calcSource[k] = NULL
  /\ calculated.aiMid > 0

\* a step of the tick timer's callback: neither the clock nor the refreshes
\* in flight move
TickStep == now' = now /\ pending' = pending

\* the counter moved from whole value `from` and remainder counter.fraction
\* by n whole jobs and a change of remainder that add up to
\* perSecond * elapsed * jitter for a jitter in [0.9, 1.1], in units of
\* 1 / FracDen, and the remainder is below one job again
MovedByIncrement(from) ==
  LET n == counter'.value - from
      span == calculated.perSecond * (now - counter.lastTick)
  IN /\ n \in 0..((span * 11 * NumDraws) \div FracDen + 1)
     /\ \E j \in (9 * NumDraws)..(11 * NumDraws) :
          n * FracDen + counter'.fraction - counter.fraction = span * j
     /\ counter'.fraction \in 0..(FracDen - 1)

\* C26 as stated: each tick with a positive rate increases counter.value +
\* counter.fraction by exactly perSecond * elapsed * jitter, jitter in
\* [0.9, 1.1], the carry keeping the sum and ending with fraction below 1.
C26_TickAddsIncrement ==
  [][ (TickStep /\ calculated.perSecond > 0) =>
        MovedByIncrement(counter.value) ]_vars

\* C26 amended: a tick with a positive rate on a counter that is seeded
\* increases counter.value + counter.fraction by exactly perSecond * elapsed *
\* jitter, jitter in [0.9, 1.1]; the tick that seeds the counter adds that
\* increment to historicalMid instead of the value it found; the carry moves
\* whole jobs from fraction to value without changing the sum and ends with
\* fraction below 1.
C26_TickAddsIncrementAfterSeeding ==
  [][ (TickStep /\ calculated.perSecond > 0) =>
        MovedByIncrement(IF ~counter.initialized /\ calculated.historicalMid > 0
                           THEN calculated.historicalMid
                           ELSE counter.value) ]_vars

\* a tick over a positive elapsed time has carried whole jobs into a seeded
\* counter and left a remainder
C26_Witness ==
  /\ counter.initialized
  /\ calculated.perSecond > 0
  /\ tickedUp
  /\ counter.fraction > 0
  /\ counter.lastTick = now
  /\ now > 0

\* what GET /api/health would report as dataStatus in the current state
dataStatus == healthBody(counter, clients, errors).dataStatus

\* C27: a refresh that completes leaves as error list exactly the series that
\* errored in it, and the health probe then reports 'partial' if there is one
\* and 'ok' if there is none; no other step changes the list or the report, so
\* the report stands until the next refresh completes.
C27_StaleDataObservable ==
  [][ /\ RefreshCompletes =>
           /\ errors' = SelectSeq(FRED_SERIES, LAMBDA k : fred'[k].error)
           /\ dataStatus' = IF \E k \in Series : fred'[k].error
                              THEN "partial" ELSE "ok"
      /\ ~RefreshCompletes =>
           /\ errors' = errors
           /\ dataStatus' = dataStatus ]_vars

\* ticks have run since a refresh in which some but not all series errored,
\* after an earlier refresh had completed, and the probe reports 'partial'
C27_Witness ==
  /\ Len(errors) \in 1..(Len(FRED_SERIES) - 1)
  /\ dataStatus = "partial"
  /\ pending = << >>
  /\ tickedUp

\* C28: whenever the health probe reports dataStatus 'ok', every series in
\* liveData.fred holds a latest value that is a number (not null, not NaN)
\* and the published rates were computed from the stored values.
C28_OkMeansFreshRates ==
  dataStatus = "ok" =>
    /\ \A k \in Series : HasValue(fred[k].value)
    /\ calculated # InitialCalculated
    /\ calcSource = StoredValues

\* C28 after the first completed refresh only: the probe reports 'ok' and
\* every series holds a number from which the rates were computed.
C28_OkAfterFirstRefresh ==
  (dataStatus = "ok" /\ \A k \in Series : roundOf[k]) =>
    /\ \A k \in Series : HasValue(fred[k].value)
    /\ calculated # InitialCalculated
    /\ calcSource = StoredValues

\* the start-up refresh, the first one started, completes in this step after
\* a refresh started later has already completed and written the series
OlderRefreshCompletesLate ==
  /\ \E i \in 1..Len(pending) : pending[i] = "startup"
  /\ \A i \in 1..Len(pending') : pending'[i] # "startup"
  /\ Len(pending') < Len(pending)
  /\ \A k \in Series : roundOf[k]

\* C29: when a refresh was still in flight as the next one started and the
\* newer one completed first, the older one completing late changes neither
\* the stored series nor the rates computed from them: they stay those of the
\* refresh started last.
C29_LatestFetchWins ==
  [][ OlderRefreshCompletesLate =>
        /\ fred' = fred
        /\ calculated' = calculated ]_vars

\* the connections that have connected and whose close or error event has
\* not yet been emitted (a broken socket stays here until its event)
Connected == { c \in Conns : readyState[c] # "absent" }

\* C30: after every step the recipient set holds exactly the connections that
\* have connected and not yet emitted a close or error event, each once; a
\* message is sent only on an open connection of the set, so none after the
\* removal; and a health response carries the size of that set as clients.
C30_RecipientSetExact ==
  [][ /\ { clients'[i] : i \in 1..Len(clients') } = Connected'
      /\ Len(clients') = Cardinality(Connected')
      /\ \A c \in Conns :
           (readyState' = readyState /\ log'[c] # log[c]) =>
              /\ InSet(clients, c)
              /\ readyState[c] = "OPEN"
      /\ reply'.route = "health" =>
           reply'.body.clients = Cardinality(Connected') ]_vars

\* the health probe answered with two clients while one of the two sockets
\* had broken and its close or error event was still to come
C30_Witness ==
  /\ reply.route = "health"
  /\ reply.body.clients = 2
  /\ \E c, d \in Connected : readyState[c] = "CLOSED" /\ readyState[d] = "OPEN"

\* a step of the animation loop: animate() ran and nothing but the state
\* object moved (a message or the moving origin of time would set lastTick)
FrameStep ==
  /\ state.animating
  /\ state' # state
  /\ state'.lastTick = state.lastTick
  /\ UNCHANGED << ws, timers, clock, serverUp, outages, feed, received >>

\* C31: the close event changes none of targetCounter, perSecond,
\* counterDecimal and lastTick; perSecond changes only by a message on an
\* open socket; no step of the page ends the animation loop once it runs;
\* and a frame drawn while the socket is not open still raises the displayed
\* value to the extrapolation from the last perSecond received.
C31_DisconnectedKeepsExtrapolating ==
  [][ /\ (ws # "CLOSED" /\ ws' = "CLOSED") =>
           /\ state'.targetCounter = state.targetCounter
           /\ state'.perSecond = state.perSecond
           /\ state'.counterDecimal = state.counterDecimal
           /\ state'.lastTick = state.lastTick
      /\ state'.perSecond # state.perSecond => ws = "OPEN"
      /\ state.animating => state'.animating
      /\ (FrameStep /\ ws # "OPEN" /\ state.perSecond > 0
            /\ clock - state.lastTick >= 1) =>
           state'.counterDecimal >=
             state.targetCounter
               + (state.perSecond * (clock - state.lastTick)) \div 2 ]_vars

\* the socket is closed with a reconnect pending and the displayed value
\* stands above the last target, extrapolated at the last rate received
C31_Witness ==
  /\ ws = "CLOSED"
  /\ timers # << >>
  /\ state.animating
  /\ state.perSecond > 0
  /\ clock - state.lastTick >= 2
  /\ state.counterDecimal =
       state.targetCounter + (state.perSecond * (clock - state.lastTick)) \div 2

\* C32: a frame drawn when more than the update interval has passed since the
\* last update (a second or more on the page's clock of whole seconds) with a
\* positive perSecond raises the displayed value to at least targetCounter +
\* perSecond * elapsed; a frame drawn within the interval only moves the
\* displayed value 12% of the way toward targetCounter.
C32_FrameExtrapolatesAtRate ==
  [][ FrameStep =>
        LET elapsed == clock - state.lastTick
        IN /\ (elapsed >= 1 /\ state.perSecond > 0) =>
                state'.counterDecimal >=
                  state.targetCounter + state.perSecond * elapsed
           /\ elapsed = 0 =>
                state'.counterDecimal =
                  state.counterDecimal
                    + Smooth(state.targetCounter - state.counterDecimal) ]_vars

\* the result entry made from the roster entry of that name
EntryOf(name) ==
  result.list[CHOOSE i \in 1..Len(result.list) : result.list[i].name = name]

\* the order of the type and tier multipliers of the tables
TypeRank(t) ==
  CASE t = "direct" -> 3 [] t = "augmentation" -> 2 [] t = "infrastructure" -> 1

TierRank(l) ==
  CASE l = "enterprise" -> 3 [] l = "prosumer" -> 2 [] l = "consumer" -> 1

\* raw score of a result entry over its category's total and the factors'
\* denominators
EntryRaw(e) ==
  e.rawFactors.categoryAllocation * e.rawFactors.marketShare.num
    * e.rawFactors.deploymentMaturity * e.rawFactors.displacementTypeMult
    * e.rawFactors.operationalFactor * e.rawFactors.enterpriseFactor

\* a and b are in one category with equal maturity and equal positive
\* operational status, a has the larger valuation and type and tier
\* multipliers at least as large as b's
Dominates(a, b) ==
  /\ a.category = b.category
  /\ calculateDeploymentMaturity(a) = calculateDeploymentMaturity(b)
  /\ a.operationalStatus = b.operationalStatus
  /\ a.operationalStatus > 0
  /\ a.valuation > b.valuation
  /\ TypeRank(a.displacementType) >= TypeRank(b.displacementType)
  /\ TierRank(a.enterpriseLevel) >= TierRank(b.enterpriseLevel)

\* a's raw score and share strictly exceed b's, a's displacement is at least
\* b's
Outscores(a, b) ==
  /\ EntryRaw(EntryOf(a.name)) > EntryRaw(EntryOf(b.name))
  /\ EntryOf(a.name).percentage.num * EntryOf(b.name).percentage.den
       > EntryOf(b.name).percentage.num * EntryOf(a.name).percentage.den
  /\ EntryOf(a.name).displacement >= EntryOf(b.name).displacement

\* C33 as stated: of two entities in one category with equal maturity and
\* equal positive operational factor, the one with the larger valuation and
\* type and tier multipliers at least as large has the strictly larger raw
\* score and share and at least the displacement of the other.
C33_LargerScaleLargerShare ==
  Returned =>
    \A i, j \in 1..Len(roster) :
      Dominates(roster[i], roster[j]) => Outscores(roster[i], roster[j])

\* C33 amended: the same when the equal maturity is positive; two entities
\* of maturity 0 both have raw score 0 and share 0.
C33_LargerScaleLargerShareLaunched ==
  Returned =>
    \A i, j \in 1..Len(roster) :
      Dominates(roster[i], roster[j]) =>
        IF calculateDeploymentMaturity(roster[i]) > 0
          THEN Outscores(roster[i], roster[j])
          ELSE /\ EntryRaw(EntryOf(roster[i].name)) = 0
               /\ EntryRaw(EntryOf(roster[j].name)) = 0
               /\ EntryOf(roster[i].name).percentage.num = 0
               /\ EntryOf(roster[j].name).percentage.num = 0

\* the scenario of the larger, direct, enterprise entity against the smaller,
\* infrastructure, consumer one, both launched more than 24 months ago and
\* fully operational: scored, with the larger share for the first
C33_Witness ==
  /\ Returned
  /\ Len(roster) = 2
  /\ \E i, j \in 1..2 :
       /\ Dominates(roster[i], roster[j])
       /\ roster[i].valuation = 99 /\ roster[j].valuation = 9
       /\ roster[i].displacementType = "direct"
       /\ roster[j].displacementType = "infrastructure"
       /\ roster[i].enterpriseLevel = "enterprise"
       /\ roster[j].enterpriseLevel = "consumer"
       /\ roster[i].operationalStatus = 10
       /\ calculateDeploymentMaturity(roster[i]) = MaturityDen
       /\ CURRENT_DATE - roster[i].productLaunch > 24 * 30
       /\ CURRENT_DATE - roster[j].productLaunch > 24 * 30
       /\ Outscores(roster[i], roster[j])

HoldsId(q, id) == \E i \in 1..Len(q) : q[i].id = id

\* no two events of the sequence q share an id
DistinctIds(q) == \A i, j \in 1..Len(q) : i # j => q[i].id # q[j].id

\* an addEvent call was made in this step
AddEventCalled == StoreCalled /\ lastCall'.op = "addEvent"

\* C35 as stated: addEvent with an id that is stored returns false and leaves
\* the stored events as they were, otherwise it returns true; no two stored
\* events share an id; and an event reported as added is stored.
C35_AddEventDedupes ==
  [][ /\ DistinctIds(store'.memory.events)
      /\ AddEventCalled =>
           IF HoldsId(store.memory.events, lastCall'.arg.id)
             THEN /\ lastCall'.returned = "false"
                  /\ store'.memory.events = store.memory.events
             ELSE /\ lastCall'.returned = "true"
                  /\ Holds(store'.memory.events, lastCall'.arg) ]_vars

\* C35 amended: as stated, except that an event reported as added is stored
\* only if it is less than 90 days old; an older one is reported as added
\* and the stored events are left as they were.
C35_AddEventDedupesRecent ==
  [][ /\ DistinctIds(store'.memory.events)
      /\ AddEventCalled =>
           IF HoldsId(store.memory.events, lastCall'.arg.id)
             THEN /\ lastCall'.returned = "false"
                  /\ store'.memory.events = store.memory.events
             ELSE /\ lastCall'.returned = "true"
                  /\ store'.memory.events =
                       IF lastCall'.arg.age < 90
                         THEN Append(store.memory.events, lastCall'.arg)
                         ELSE store.memory.events ]_vars

\* two events with different ids are stored and a third call, with an id
\* that is stored but another event_time, has just been refused
C35_Witness ==
  /\ Len(store.memory.events) = 2
  /\ lastCall.op = "addEvent"
  /\ lastCall.returned = "false"
  /\ HoldsId(store.memory.events, lastCall.arg.id)
  /\ ~Holds(store.memory.events, lastCall.arg)

\* C36: after a recompute (on series values that are non-negative, null or
\* missing) the published bands are ordered: aiLow <= aiMid <= aiHigh,
\* perDayLow <= perDayMid <= perDayHigh and historicalLow <= historicalMid <=
\* historicalHigh.
C36_BandsOrdered ==
  calculated # InitialCalculated =>
    /\ \A k \in Series : calcSource[k] >= 0 \/ calcSource[k] \in {NULL, NAN}
    /\ calculated.aiLow <= calculated.aiMid
    /\ calculated.aiMid <= calculated.aiHigh
    /\ calculated.perDayLow <= calculated.perDayMid
    /\ calculated.perDayMid <= calculated.perDayHigh
    /\ calculated.historicalLow <= calculated.historicalMid
    /\ calculated.historicalMid <= calculated.historicalHigh

\* a recompute has published three different bands, with a residual of
\* untracked sectors in them
C36_Witness ==
  /\ calculated # InitialCalculated
  /\ calculated.aiLow < calculated.aiMid
  /\ calculated.aiMid < calculated.aiHigh
  /\ calculated.perDayLow < calculated.perDayMid
  /\ calculated.historicalMid < calculated.historicalHigh
  /\ calcSource["total"] > SumOver(TrackedWithValue(calcSource), calcSource)

\* C37: a refresh that completes on a seeded counter leaves counter.value and
\* counter.fraction as they were, whatever historicalMid it publishes.
C37_RefreshKeepsSeededCounter ==
  [][ (RefreshCompletes /\ counter.initialized) =>
        /\ counter'.value = counter.value
        /\ counter'.fraction = counter.fraction ]_vars

\* C38: at most one requestAnimationFrame chain is ever running, and exactly
\* one from the first successful open on (state.animating), whatever the
\* disconnects and reconnects; every frame applies animate() once.
C38_OneAnimationLoop ==
  /\ [](chains <= 1 /\ (state.animating <=> chains = 1))
  /\ [][ /\ chains' >= chains
         /\ FrameStep => state' = animate(state, clock) ]_vars

\* a socket has opened again after an earlier one had delivered updates and
\* closed, and still one chain is running
C38_Witness ==
  /\ chains = 1
  /\ ws = "OPEN"
  /\ state.connected
  /\ ~received
  /\ state.targetCounter > 0

\* the share p = [num, den] is a fraction in [0, 1]
InUnitInterval(p) == p.den > 0 /\ p.num >= 0 /\ p.num <= p.den

\* C39: every displacement returned is a non-negative integer and every
\* share, of the category and of the total, lies in [0, 1]; the entities of a
\* category whose log-scales sum to 0 have share 0, and when every raw score
\* is 0 every entity has share 0 and displacement 0.
C39_SharesWellDefined ==
  Returned =>
    /\ \A i \in 1..Len(result.list) :
         LET e == result.list[i]
         IN /\ e.displacement \in Nat
            /\ InUnitInterval(e.percentage)
            /\ InUnitInterval(e.rawFactors.marketShare)
            /\ categoryTotalVal(roster, e.category) = 0 =>
                 /\ e.rawFactors.marketShare.num = 0
                 /\ e.percentage.num = 0
                 /\ e.displacement = 0
    /\ (\A i \in 1..Len(result.list) : RawScoreZero(result.list[i])) =>
         \A i \in 1..Len(result.list) :
           /\ result.list[i].percentage.num = 0
           /\ result.list[i].displacement = 0

\* a list was returned for a roster with an entity alone in a category whose
\* log-scales sum to 0, next to an entity with a positive share
C39_Witness ==
  /\ Returned
  /\ totalDisplacement > 0
  /\ \E i, j \in 1..Len(result.list) :
       /\ categoryTotalVal(roster, result.list[i].category) = 0
       /\ result.list[i].displacement = 0
       /\ result.list[j].percentage.num > 0
       /\ result.list[j].displacement > 0

====
